---- MODULE Spec2Model ----
(***************************************************************************)
(* PPG heart-rate / SpO2 estimators of STM32F103_MAX30102.                 *)
(*                                                                         *)
(*   Method 1  Core/Src/ppg_algorithm.c     HR_* and SpO2_*                *)
(*   Method 2  Core/Src/ppg_algorithm_v2.c  DPT_*                          *)
(*                                                                         *)
(* Numbers.  The C code computes in float.  The model computes in fixed    *)
(* point on integers and states the resolution next to every quantity:     *)
(*   samples and interval counts      integers, as fed                     *)
(*   means, deviations, thresholds    1/100 of a sample unit  (SC)         *)
(*   variances                        1/100 of a squared unit (SC)         *)
(*   heart rates                      1/1000 bpm              (HRS)        *)
(*   R values, SpO2                   1/1000                  (RS)         *)
(* Divisions truncate (floor) where the float code rounds to nearest.      *)
(***************************************************************************)
EXTENDS Integers, Sequences, FiniteSets, TLC

(***************************************************************************)
(* Program constants, at the values of the headers.                        *)
(***************************************************************************)
HR_BUFFER_SIZE == 160
MIN_PEAK_DISTANCE == 40
MAX_PEAK_DISTANCE == 160
HR_MEDIAN_FILTER_SIZE == 5
MAX_HR_CHANGE == 6
INVALID_RESET_THRESHOLD == 2
MAX_PEAKS == 20
DPT_MIN_PERIOD == 40
DPT_MAX_PERIOD == 200
DPT_PERIOD_RANGE == DPT_MAX_PERIOD - DPT_MIN_PERIOD + 1
DPT_BUFFER_SIZE == 1000
DPT_R_SMOOTH_SIZE == 10
DPT_HR_SMOOTH_SIZE == 7
DPT_MEDIAN_SIZE == 7
DPT_MAX_HR_CHANGE == 8
MIN_DC_VALUE == 10000
MIN_PEAK_MAGNITUDE == 500

(***************************************************************************)
(* Fixed-point resolutions.                                                *)
(***************************************************************************)
SC == 100
HRS == 1000
RS == 1000
PCT == 1000
WS == 100
AS == 1000

(***************************************************************************)
(* Bounds of the model: the input alphabet and the length of a run.        *)
(***************************************************************************)
\* HR_Calculate is called once every CalcInterval samples (main.c: 250,
\* method1_pipeline_test.c: 50).
CalcInterval == 160
\* number of HR_AddSample calls in a run
MaxSamples == 640
\* number of disturbances in a run: changes of the input signal and HR_Reset
\* calls made by the application
MaxEvents == 2
\* calculation windows at the start of a run during which the signal is steady
WarmupWindows == 2
\* SpO2_Calculate calls in a run, and disturbances among them: changes of
\* the readings and SpO2_Reset calls
MaxSpCalls == 11
MaxSpEvents == 2
\* DPT_Process calls in a run, and the DC levels of its two channels
MaxDptSamples == 1262
DptRedDc == 50000
DptIrDc == 80000
\* the lost signal: DC level before the loss, the sample at which the input
\* is lost, and the level of both channels from then on (dpt_method_test.c
\* feeds 100)
\* the DC level of the flickering input over a finger
FlickerDc == 20000
LossDc == 20000
LossAt == 1010
LossLevel == 100
\* a long quiet run: the number of DPT_Process(0, 0) calls already made when
\* the model picks it up, and the number of further calls it follows
WrapStart == 65436
WrapCalls == 200
\* the conditioning filter: samples fed, the DC level of the raw signal
\* the relative error, in percent, allowed between a statistic the code
\* keeps and the same statistic computed from the buffer
StatTolerance == 2
\* number of samples in a run of the per-sample loop
MaxScanSamples == 400
\* the filter input that stays near full scale, and the largest 18-bit sample
\* (DETREND_WINDOW_SIZE of them sum to less than 2^24: the float sum is exact)
FltSaturated == 1
FltFullScale == 262143
MaxFltSamples == 48
FltDc == 50000
\* shape of the synthetic pulse: height, slope per sample, phase of the peak
PulseAmp == 100
PulseSlope == 10
PulsePhase == 10
\* the DC level the conditioner reports for a finger on the sensor
DcGood == 1200
\* the DC level of a lost signal (not above the 1000 guard of HR_AddSample)
DcLow == 500

(***************************************************************************)
(* Arithmetic helpers: the float operations the code uses.                 *)
(***************************************************************************)
Abs(x) == IF x < 0 THEN -x ELSE x
Min(a, b) == IF a <= b THEN a ELSE b
Max(a, b) == IF a >= b THEN a ELSE b

RECURSIVE Newton(_, _)
Newton(n, x) ==
    LET y == (x + n \div x) \div 2
    IN IF y >= x THEN x ELSE Newton(n, y)

\* floor of the square root of n, 0 <= n < 2^31
ISqrt(n) == IF n <= 0 THEN 0 ELSE Newton(n, 46341)

\* sqrtf on a value held in 1/100: result in 1/100
FSqrt(v) == IF v <= 20000000 THEN ISqrt(v * SC) ELSE ISqrt(v) * 10

\* the k-th element (0-based) of the ascending sort of sequence s: what the
\* bubble sorts of the code leave at temp[k]
Sorted(s, k) ==
    LET n == Len(s)
        less(v) == Cardinality({j \in 1..n : s[j] < v})
        leq(v)  == Cardinality({j \in 1..n : s[j] <= v})
        i == CHOOSE i \in 1..n : less(s[i]) <= k /\ leq(s[i]) > k
    IN s[i]

\* the sum of f[lo..hi], f a function on integers (a C array or a sequence);
\* split in halves to keep the evaluation shallow
RECURSIVE RangeSum(_, _, _)
RangeSum(f, lo, hi) ==
    IF lo > hi THEN 0
    ELSE IF lo = hi THEN f[lo]
    ELSE LET mid == (lo + hi) \div 2
         IN RangeSum(f, lo, mid) + RangeSum(f, mid + 1, hi)

SeqSum(s, i) == RangeSum(s, 1, i)

SetMin(S) == CHOOSE x \in S : \A y \in S : x <= y
SetMax(S) == CHOOSE x \in S : \A y \in S : x >= y


(***************************************************************************)
(* Method 1, heart rate: HR_State_t and the operations on it.              *)
(*   buffer           [0..159] of samples                                  *)
(*   rolling_mean     1/100      rolling_variance  1/100                   *)
(*   peak_amplitude   1/100      ac_dc_ratio       1/1000000               *)
(*   hr_history, last_hr, ema_hr   1/1000 bpm                              *)
(***************************************************************************)
HR_Init ==
    [ buffer |-> [i \in 0..(HR_BUFFER_SIZE - 1) |-> 0],
      buffer_index |-> 0, buffer_full |-> 0,
      last_peak_index |-> 0, global_index |-> 0,
      rolling_mean |-> 0, rolling_variance |-> 0, rolling_count |-> 0,
      recent_dc_value |-> 0, peak_amplitude |-> 0, ac_dc_ratio |-> 0,
      signal_quality |-> 0, consecutive_invalid |-> 0,
      hr_history |-> [i \in 1..HR_MEDIAN_FILTER_SIZE |-> 0],
      hr_history_index |-> 0, hr_history_count |-> 0,
      last_hr |-> 0, ema_hr |-> 0, hr_valid |-> 0, stable_count |-> 0 ]

\* median_filter of ppg_algorithm.c: the median of data[1..size]
M1_median_filter(data, size) ==
    IF size = 0 THEN 0
    ELSE LET t == SubSeq(data, 1, size)
         IN IF size % 2 = 0
            THEN (Sorted(t, size \div 2 - 1) + Sorted(t, size \div 2)) \div 2
            ELSE Sorted(t, size \div 2)

\* the recomputation of lines 113-124: [mean, variance] of the whole buffer
Recompute(buf) ==
    LET mean == (RangeSum(buf, 0, HR_BUFFER_SIZE - 1) * SC) \div HR_BUFFER_SIZE
        sq   == [i \in 0..(HR_BUFFER_SIZE - 1) |->
                    ((buf[i] * SC - mean) * (buf[i] * SC - mean)) \div SC]
    IN << mean, RangeSum(sq, 0, HR_BUFFER_SIZE - 1) \div HR_BUFFER_SIZE >>

\* Welford's recurrence of lines 96-104: [mean, variance accumulator]
Welford(s, ac_value) ==
    IF s.rolling_count = 0 THEN << ac_value * SC, 0 >>
    ELSE LET delta  == ac_value * SC - s.rolling_mean
             mean   == s.rolling_mean + delta \div (s.rolling_count + 1)
             delta2 == ac_value * SC - mean
         IN << mean, s.rolling_variance + (delta * delta2) \div SC >>

HR_AddSample(s, ac_value, dc_value) ==
    LET buf   == [s.buffer EXCEPT ![s.buffer_index] = ac_value]
        wrap  == s.buffer_index + 1 >= HR_BUFFER_SIZE
        full  == IF wrap THEN 1 ELSE s.buffer_full
        w     == Welford(s, ac_value)
        over  == s.rolling_count + 1 > HR_BUFFER_SIZE
        stats == IF over /\ full = 1 THEN Recompute(buf) ELSE w
        var   == stats[2]
    IN [s EXCEPT
          !.buffer = buf,
          !.buffer_index = IF wrap THEN 0 ELSE s.buffer_index + 1,
          !.global_index = (s.global_index + 1) % 65536,
          !.buffer_full = full,
          !.recent_dc_value = dc_value,
          !.rolling_mean = stats[1],
          !.rolling_variance = var,
          !.rolling_count = IF over THEN HR_BUFFER_SIZE ELSE s.rolling_count + 1,
          !.ac_dc_ratio = IF dc_value > 1000
                          THEN (FSqrt(var) * 10000) \div dc_value
                          ELSE s.ac_dc_ratio]

\* the tally of three checks, bucketed to 0/1/2
assess_signal_quality(s) ==
    LET q1 == IF s.ac_dc_ratio >= 10000 THEN 1 ELSE 0
        q2 == IF FSqrt(s.rolling_variance) >= 5 * SC THEN 1 ELSE 0
        q3 == IF s.peak_amplitude >= 10 * SC THEN 1 ELSE 0
        quality == q1 + q2 + q3
    IN IF quality >= 3 THEN 2 ELSE IF quality >= 2 THEN 1 ELSE 0

\* HR_Reset as it would be if it kept the EMA
HR_Reset_KeepEma(s) ==
    [s EXCEPT !.hr_history_index = 0, !.hr_history_count = 0,
              !.last_hr = 0, !.hr_valid = 0,
              !.stable_count = 0, !.consecutive_invalid = 0,
              !.signal_quality = 0, !.peak_amplitude = 0,
              !.recent_dc_value = 0]

\* HR_Reset as a full reset: the sample buffer is started over as well
HR_Reset_Full(s) ==
    [s EXCEPT !.hr_history_index = 0, !.hr_history_count = 0,
              !.last_hr = 0, !.ema_hr = 0, !.hr_valid = 0,
              !.stable_count = 0, !.consecutive_invalid = 0,
              !.signal_quality = 0, !.peak_amplitude = 0,
              !.recent_dc_value = 0,
              !.buffer_index = 0, !.buffer_full = 0, !.rolling_count = 0]

\* HR_Reset, lines 173-189
HR_Reset(s) ==
    [s EXCEPT !.hr_history_index = 0, !.hr_history_count = 0,
              !.last_hr = 0, !.ema_hr = 0, !.hr_valid = 0,
              !.stable_count = 0, !.consecutive_invalid = 0,
              !.signal_quality = 0, !.peak_amplitude = 0,
              !.recent_dc_value = 0]


\* the local-maximum test of lines 253-259 at index i
IsPeak(buf, threshold, i) ==
    /\ buf[i] > buf[i - 1] /\ buf[i] > buf[i - 2] /\ buf[i] > buf[i - 3]
    /\ buf[i] > buf[i + 1] /\ buf[i] > buf[i + 2] /\ buf[i] > buf[i + 3]
    /\ buf[i] * SC > threshold

\* the scan without the distance test of line 262: every local maximum
\* above the threshold is recorded until the array is full
RECURSIVE RecordPeaks_NoDistance(_, _)
RecordPeaks_NoDistance(cands, peaks) ==
    LET np   == Len(peaks)
        rest == IF np = 0 THEN cands
                ELSE {i \in cands : i > peaks[np]}
    IN IF np >= MAX_PEAKS \/ rest = {} THEN peaks
       ELSE RecordPeaks_NoDistance(rest, Append(peaks, SetMin(rest)))

\* the peaks the scan of lines 247-269 records, in scan order: the first local
\* maximum, then each time the first one at least MIN_PEAK_DISTANCE after the
\* peak recorded last, until the array of MAX_PEAKS is full
RECURSIVE RecordPeaks(_, _)
RecordPeaks(cands, peaks) ==
    LET np   == Len(peaks)
        rest == IF np = 0 THEN cands
                ELSE {i \in cands : i - peaks[np] >= MIN_PEAK_DISTANCE}
    IN IF np >= MAX_PEAKS \/ rest = {} THEN peaks
       ELSE RecordPeaks(rest, Append(peaks, SetMin(rest)))

\* the scan of lines 244-269: [peaks, min_val, max_val], the values in 1/100;
\* the scan stops at the index that fills the peaks array
PeakScan(buf, threshold, mean) ==
    LET range == 3..(HR_BUFFER_SIZE - 4)
        cands == {i \in range : IsPeak(buf, threshold, i)}
        peaks == RecordPeaks(cands, << >>)
        last  == IF Len(peaks) >= MAX_PEAKS THEN peaks[MAX_PEAKS]
                 ELSE HR_BUFFER_SIZE - 4
        seen  == {buf[i] * SC : i \in 3..last} \cup {mean}
    IN [peaks |-> peaks, min_val |-> SetMin(seen), max_val |-> SetMax(seen)]

\* lines 288-296: the intervals kept, as floats in 1/10 sample
ValidIntervals(peaks) ==
    LET all == [i \in 1..(Len(peaks) - 1) |-> peaks[i + 1] - peaks[i]]
        ok(d) == d >= MIN_PEAK_DISTANCE /\ d <= MAX_PEAK_DISTANCE
        kept == SelectSeq(all, ok)
    IN [i \in 1..Len(kept) |-> kept[i] * 10]

\* lines 308-341: the median interval (1/10 sample), re-taken over the
\* intervals near it when their spread is above 15 samples
MedianInterval(intervals) ==
    LET cnt    == Len(intervals)
        median == M1_median_filter(intervals, cnt)
        mean   == SeqSum(intervals, cnt) \div cnt
        var    == SeqSum([i \in 1..cnt |-> (intervals[i] - mean) * (intervals[i] - mean)],
                         cnt) \div cnt
        near(d) == Abs(d - median) < 200
        filtered == SelectSeq(intervals, near)
    IN IF var > 150 * 150 /\ cnt > 2 /\ Len(filtered) >= 2
       THEN M1_median_filter(filtered, Len(filtered))
       ELSE median

\* steps 10 and 11, lines 367-385: the rate limit against the EMA, then the
\* EMA itself; the result is the new ema_hr
SmoothHR_NoLimit(filtered_hr, ema_hr) == filtered_hr

\* steps 10 and 11 without the averaging of line 384: the rate-limited value
\* becomes the EMA
SmoothHR_NoEma(filtered_hr, ema_hr) ==
    LET diff == filtered_hr - ema_hr
    IN IF ema_hr > 0
       THEN IF diff > MAX_HR_CHANGE * HRS THEN ema_hr + MAX_HR_CHANGE * HRS
            ELSE IF diff < -(MAX_HR_CHANGE * HRS)
                 THEN ema_hr - MAX_HR_CHANGE * HRS
                 ELSE filtered_hr
       ELSE filtered_hr

SmoothHR(filtered_hr, ema_hr) ==
    LET diff == filtered_hr - ema_hr
        limited == IF ema_hr > 0
                   THEN IF diff > MAX_HR_CHANGE * HRS THEN ema_hr + MAX_HR_CHANGE * HRS
                        ELSE IF diff < -(MAX_HR_CHANGE * HRS)
                             THEN ema_hr - MAX_HR_CHANGE * HRS
                             ELSE filtered_hr
                   ELSE filtered_hr
    IN IF ema_hr = 0 THEN limited
       ELSE (2 * limited + 8 * ema_hr) \div 10

\* lines 219-226 and their three copies: count the rejection, reset at the
\* threshold, mark invalid, return last_hr
Reject(s, path) ==
    LET c  == [s EXCEPT !.consecutive_invalid = (s.consecutive_invalid + 1) % 256]
        rs == c.consecutive_invalid >= INVALID_RESET_THRESHOLD
        r  == IF rs THEN HR_Reset(c) ELSE c
        e  == [r EXCEPT !.hr_valid = 0]
    IN [st |-> e, ret |-> e.last_hr, path |-> path, reset |-> rs, cand |-> 0,
        delta |-> 0]

\* lines 357-405: an accepted raw reading hr (1/1000 bpm)
Accept(s, hr) ==
    LET hist  == [s.hr_history EXCEPT ![s.hr_history_index + 1] = hr]
        cnt   == IF s.hr_history_count < HR_MEDIAN_FILTER_SIZE
                 THEN s.hr_history_count + 1 ELSE s.hr_history_count
        filtered_hr == M1_median_filter(hist, cnt)
        ema   == SmoothHR(filtered_hr, s.ema_hr)
        diff  == Abs(ema - s.last_hr)
        stable == IF cnt >= 2
                  THEN IF diff < 6 * HRS \/ s.last_hr = 0
                       THEN (s.stable_count + 1) % 256 ELSE 0
                  ELSE s.stable_count
        valid == cnt >= 2 /\ stable >= 2
        e == [s EXCEPT
                !.hr_history = hist,
                !.hr_history_index = (s.hr_history_index + 1) % HR_MEDIAN_FILTER_SIZE,
                !.hr_history_count = cnt,
                !.ema_hr = ema,
                !.stable_count = stable,
                !.hr_valid = IF valid THEN 1 ELSE s.hr_valid,
                !.consecutive_invalid = IF valid THEN 0 ELSE s.consecutive_invalid,
                !.last_hr = ema]
    IN [st |-> e, ret |-> ema, path |-> "accepted", reset |-> FALSE, cand |-> hr,
        delta |-> diff]

\* lines 232-234: the peak threshold for signal quality q
AdaptiveThreshold(mean, std_dev, q) ==
    mean + (IF q = 2 THEN (4 * std_dev) \div 10
            ELSE IF q = 1 THEN (5 * std_dev) \div 10
            ELSE (6 * std_dev) \div 10)

\* a guard of line 207 that never holds
BufferNotFull_Never(s) == FALSE

\* line 207: !hr_state->buffer_full
BufferNotFull(s) == s.buffer_full = 0

\* HR_Calculate, lines 205-406.  The result names the state left behind (st),
\* the value returned (ret), the return statement taken (path), whether the
\* call ran HR_Reset (reset), the raw reading of step 8 (cand) and the
\* EMA-to-previous distance of step 12 (delta)
HR_Calculate(s) ==
    IF BufferNotFull(s)
    THEN [st |-> s, ret |-> s.last_hr, path |-> "notfull", reset |-> FALSE, cand |-> 0,
          delta |-> 0]
    ELSE
    LET mean     == s.rolling_mean
        variance == s.rolling_variance \div s.rolling_count
        std_dev  == FSqrt(variance)
        q        == assess_signal_quality(s)
        s1       == [s EXCEPT !.signal_quality = q]
    IN IF q = 0 THEN Reject(s1, "quality")
       ELSE
       LET s2 == [s1 EXCEPT !.consecutive_invalid = 0]
           threshold == AdaptiveThreshold(mean, std_dev, q)
           scan == PeakScan(s.buffer, threshold, mean)
           s3 == [s2 EXCEPT !.peak_amplitude = scan.max_val - scan.min_val]
           intervals == ValidIntervals(scan.peaks)
       IN IF Len(scan.peaks) < 2 THEN Reject(s3, "peaks")
          ELSE IF Len(intervals) < 2 THEN Reject(s3, "intervals")
          ELSE LET hr == 60000000 \div MedianInterval(intervals)
               IN IF hr < 30 * HRS \/ hr > 180 * HRS THEN Reject(s3, "range")
                  ELSE Accept(s3, hr)


(***************************************************************************)
(* Method 1, SpO2 (ppg_algorithm.c).  R-values are kept in 1/1000, SpO2 in  *)
(* 1/1000 percent; the inputs are the finite, non-negative readings the    *)
(* filter hands over, in whole counts.                                     *)
(***************************************************************************)
\* SpO2_Init, lines 421-427
SpO2_Init ==
    [r_history       |-> [i \in 0..9 |-> 0],
     r_history_index |-> 0,
     r_history_count |-> 0,
     last_spo2       |-> 0,
     spo2_valid      |-> 0]

\* SpO2_Reset, lines 499-504: the slots of r_history keep their contents
SpO2_Reset(s) ==
    [s EXCEPT !.r_history_index = 0, !.r_history_count = 0,
              !.last_spo2 = 0, !.spo2_valid = 0]

\* line 441: the division guard
InputTooWeak(red_dc, ir_dc, ir_ac_rms) ==
    red_dc < 1000 \/ ir_dc < 1000 \/ ir_ac_rms < 1

\* line 448: R = (red_ac_rms / red_dc) / (ir_ac_rms / ir_dc), in 1/1000
RValue(red_ac_rms, red_dc, ir_ac_rms, ir_dc) ==
    (RS * red_ac_rms * ir_dc) \div (red_dc * ir_ac_rms)

\* line 451 with its upper bound missing
ROutOfRange_NoUpper(red_ac_rms, red_dc, ir_ac_rms, ir_dc) ==
    10 * red_ac_rms * ir_dc < red_dc * ir_ac_rms

\* line 451: r < 0.1f || r > 2.0f, decided on the exact quotient
ROutOfRange(red_ac_rms, red_dc, ir_ac_rms, ir_dc) ==
    \/ 10 * red_ac_rms * ir_dc < red_dc * ir_ac_rms
    \/ red_ac_rms * ir_dc > 2 * red_dc * ir_ac_rms

\* line 472: -45.060 r^2 + 30.354 r + 94.845, r in 1/1000, result in 1/1000 %
\* (the products fit for r up to 46)
Polynomial(r) ==
    LET r2 == (r * r) \div RS
    IN 94845 + (30354 * r) \div RS - (45 * r2 + (60 * r2) \div RS)

\* line 475
SpO2OutOfRange(spo2) == spo2 < 70 * PCT \/ spo2 > 100 * PCT

\* SpO2_Calculate with rejections that leave spo2_valid as it was
SpO2_Calculate_KeepValid(s, red_ac_rms, red_dc, ir_ac_rms, ir_dc) ==
    IF InputTooWeak(red_dc, ir_dc, ir_ac_rms)
    THEN [st |-> s, ret |-> s.last_spo2, path |-> "weak"]
    ELSE IF ROutOfRange(red_ac_rms, red_dc, ir_ac_rms, ir_dc)
    THEN [st |-> s, ret |-> s.last_spo2, path |-> "r_range"]
    ELSE
    LET r     == RValue(red_ac_rms, red_dc, ir_ac_rms, ir_dc)
        hist  == [s.r_history EXCEPT ![s.r_history_index] = r]
        cnt   == IF s.r_history_count < 10 THEN s.r_history_count + 1
                 ELSE s.r_history_count
        s1    == [s EXCEPT !.r_history = hist,
                           !.r_history_index = (s.r_history_index + 1) % 10,
                           !.r_history_count = cnt]
        avg_r == RangeSum(hist, 0, cnt - 1) \div cnt
        spo2v == Polynomial(avg_r)
    IN IF SpO2OutOfRange(spo2v)
       THEN [st |-> s1, ret |-> s.last_spo2,
             path |-> "spo2_range"]
       ELSE [st |-> [s1 EXCEPT !.last_spo2 = spo2v, !.spo2_valid = 1],
             ret |-> spo2v, path |-> "published"]

\* SpO2_Calculate, lines 438-484: the state left behind (st), the value
\* returned (ret), the return statement taken (path)
SpO2_Calculate(s, red_ac_rms, red_dc, ir_ac_rms, ir_dc) ==
    IF InputTooWeak(red_dc, ir_dc, ir_ac_rms)
    THEN [st |-> [s EXCEPT !.spo2_valid = 0], ret |-> s.last_spo2, path |-> "weak"]
    ELSE IF ROutOfRange(red_ac_rms, red_dc, ir_ac_rms, ir_dc)
    THEN [st |-> [s EXCEPT !.spo2_valid = 0], ret |-> s.last_spo2, path |-> "r_range"]
    ELSE
    LET r     == RValue(red_ac_rms, red_dc, ir_ac_rms, ir_dc)
        hist  == [s.r_history EXCEPT ![s.r_history_index] = r]
        cnt   == IF s.r_history_count < 10 THEN s.r_history_count + 1
                 ELSE s.r_history_count
        s1    == [s EXCEPT !.r_history = hist,
                           !.r_history_index = (s.r_history_index + 1) % 10,
                           !.r_history_count = cnt]
        avg_r == RangeSum(hist, 0, cnt - 1) \div cnt
        spo2v == Polynomial(avg_r)
    IN IF SpO2OutOfRange(spo2v)
       THEN [st |-> [s1 EXCEPT !.spo2_valid = 0], ret |-> s.last_spo2,
             path |-> "spo2_range"]
       ELSE [st |-> [s1 EXCEPT !.last_spo2 = spo2v, !.spo2_valid = 1],
             ret |-> spo2v, path |-> "published"]


(***************************************************************************)
(* Method 2, the sliding periodic transform (ppg_algorithm_v2.c).  The IIR  *)
(* states are kept in 1/100, the accumulators and magnitudes in 1/1000 of  *)
(* a count, the basis in 1/1000000, heart rates in 1/1000 bpm, R in 1/1000 *)
(* and SpO2 in 1/1000 percent.                                             *)
(***************************************************************************)
\* (int32_t) of a float: towards zero
TruncDiv(a, b) == IF a >= 0 THEN a \div b ELSE -((-a) \div b)

\* a * c / 1000000 for a basis value c, in pieces that fit the integers
MulFix(a, c) ==
    LET ah == a \div 1000
        al == a % 1000
        ch == c \div 1000
        cl == c % 1000
    IN ah * ch + (ah * cl + al * ch + (al * cl) \div 1000) \div 1000

\* sqrtf(re * re + im * im), re and im scaled down first where the squares
\* would not fit
Hypot(re, im) ==
    LET m == Max(Abs(re), Abs(im))
        k == m \div 32768 + 1
    IN IF m = 0 THEN 0
       ELSE LET a == re \div k
                b == im \div k
                v == a * a + b * b
            IN k * Newton(v, Min(46341, 2 * (m \div k) + 1))

\* precompute_basis_functions, lines 407-421: cosf and sinf of -2 pi / period
\* for period = DPT_MIN_PERIOD .. DPT_MAX_PERIOD
cos_basis ==
    << 987688, 988280, 988831, 989343, 989821, 990268, 990686, 991077, 991445,
       991790, 992115, 992420, 992709, 992981, 993238, 993482, 993712, 993931,
       994138, 994335, 994522, 994700, 994869, 995031, 995185, 995332, 995472,
       995606, 995734, 995857, 995974, 996087, 996195, 996298, 996397, 996493,
       996584, 996673, 996757, 996839, 996917, 996993, 997066, 997136, 997204,
       997269, 997332, 997393, 997452, 997509, 997564, 997617, 997669, 997719,
       997767, 997814, 997859, 997903, 997945, 997987, 998027, 998066, 998103,
       998140, 998176, 998210, 998244, 998276, 998308, 998339, 998369, 998398,
       998427, 998455, 998482, 998508, 998533, 998558, 998583, 998606, 998630,
       998652, 998674, 998696, 998717, 998737, 998757, 998776, 998795, 998814,
       998832, 998850, 998867, 998884, 998901, 998917, 998933, 998949, 998964,
       998979, 998993, 999007, 999021, 999035, 999048, 999061, 999074, 999087,
       999099, 999111, 999123, 999134, 999146, 999157, 999168, 999179, 999189,
       999199, 999209, 999219, 999229, 999239, 999248, 999257, 999266, 999275,
       999284, 999292, 999301, 999309, 999317, 999325, 999333, 999341, 999348,
       999355, 999363, 999370, 999377, 999384, 999391, 999398, 999404, 999411,
       999417, 999423, 999429, 999436, 999442, 999447, 999453, 999459, 999465,
       999470, 999476, 999481, 999486, 999491, 999497, 999502, 999507 >>

sin_basis ==
    << -156434, -152649, -149042, -145601, -142315, -139173, -136167, -133287,
       -130526, -127877, -125333, -122888, -120537, -118273, -116093, -113991,
       -111964, -110008, -108119, -106293, -104528, -102821, -101168, -99568,
       -98017, -96514, -95056, -93641, -92268, -90935, -89639, -88380, -87156,
       -85965, -84806, -83678, -82579, -81509, -80467, -79450, -78459, -77492,
       -76549, -75629, -74730, -73853, -72995, -72158, -71339, -70539, -69756,
       -68991, -68242, -67510, -66793, -66091, -65403, -64730, -64070, -63424,
       -62791, -62170, -61561, -60964, -60378, -59804, -59241, -58688, -58145,
       -57612, -57089, -56575, -56070, -55575, -55088, -54609, -54139, -53677,
       -53222, -52775, -52336, -51904, -51479, -51061, -50649, -50244, -49846,
       -49454, -49068, -48688, -48313, -47945, -47582, -47224, -46872, -46525,
       -46183, -45847, -45515, -45187, -44865, -44547, -44233, -43924, -43619,
       -43319, -43022, -42730, -42441, -42157, -41876, -41598, -41325, -41055,
       -40789, -40526, -40266, -40010, -39757, -39507, -39260, -39016, -38775,
       -38538, -38303, -38071, -37841, -37615, -37391, -37170, -36952, -36736,
       -36522, -36311, -36102, -35896, -35692, -35491, -35291, -35094, -34899,
       -34707, -34516, -34328, -34141, -33957, -33774, -33594, -33415, -33238,
       -33063, -32890, -32719, -32550, -32382, -32216, -32052, -31889, -31728,
       -31569, -31411 >>

\* iir_filter_init, lines 362-366
iir_filter_init == [w_n |-> 0, y_n |-> 0, x_n |-> 0, z_n |-> 0,
                    ac_value |-> 0, dc_value |-> 0]

\* iir_filter_process, lines 372-391
iir_filter_process(f, raw_value) ==
    LET w == raw_value * WS + (f.w_n - f.w_n \div 100)
        y == (f.y_n - f.y_n \div 100) + raw_value
    IN [f EXCEPT !.ac_value = -TruncDiv(w - f.w_n, WS),
                 !.w_n = w,
                 !.y_n = y,
                 !.dc_value = TruncDiv(y, WS)]

\* dpt_transform_init, lines 396-400
dpt_transform_init ==
    [real             |-> [i \in 0..(DPT_PERIOD_RANGE - 1) |-> 0],
     imag             |-> [i \in 0..(DPT_PERIOD_RANGE - 1) |-> 0],
     magnitude        |-> [i \in 0..(DPT_PERIOD_RANGE - 1) |-> 0],
     recursive_buffer |-> [i \in 0..(DPT_BUFFER_SIZE - 1) |-> 0],
     buffer_index     |-> 0,
     sample_count     |-> 0,
     buffer_full      |-> FALSE]

\* lines 455-476 for one period: [re, im] of the rotated accumulator
Rotate(real_prev, imag_prev, old_sample, new_sample, period_idx) ==
    LET cos_val == cos_basis[period_idx + 1]
        sin_val == sin_basis[period_idx + 1]
        real_updated == real_prev - old_sample * AS + new_sample * AS
        imag_updated == imag_prev
    IN [re |-> MulFix(real_updated, cos_val) - MulFix(imag_updated, sin_val),
        im |-> MulFix(real_updated, sin_val) + MulFix(imag_updated, cos_val)]

\* dpt_transform_process with the flag recomputed from sample_count on every
\* call instead of only ever being set
dpt_transform_process_Recomputed(d, ac_value) ==
    LET buf == [d.recursive_buffer EXCEPT ![d.buffer_index] = ac_value]
        current_idx == d.buffer_index
        cnt  == (d.sample_count + 1) % 65536
        full == cnt >= DPT_BUFFER_SIZE
        d1   == [d EXCEPT !.recursive_buffer = buf,
                          !.buffer_index = (d.buffer_index + 1) % DPT_BUFFER_SIZE,
                          !.sample_count = cnt,
                          !.buffer_full = full]
    IN IF ~full THEN d1
       ELSE LET rot == [i \in 0..(DPT_PERIOD_RANGE - 1) |->
                          Rotate(d.real[i], d.imag[i],
                                 buf[(current_idx + DPT_BUFFER_SIZE
                                        - (DPT_MIN_PERIOD + i)) % DPT_BUFFER_SIZE],
                                 ac_value, i)]
            IN [d1 EXCEPT !.real = [i \in 0..(DPT_PERIOD_RANGE - 1) |-> rot[i].re],
                          !.imag = [i \in 0..(DPT_PERIOD_RANGE - 1) |-> rot[i].im]]

\* dpt_transform_process without the early return of line 444: the
\* recurrence runs on every call, the buffer full or not
dpt_transform_process_Eager(d, ac_value) ==
    LET buf == [d.recursive_buffer EXCEPT ![d.buffer_index] = ac_value]
        current_idx == d.buffer_index
        cnt  == (d.sample_count + 1) % 65536
        full == d.buffer_full \/ cnt >= DPT_BUFFER_SIZE
        d1   == [d EXCEPT !.recursive_buffer = buf,
                          !.buffer_index = (d.buffer_index + 1) % DPT_BUFFER_SIZE,
                          !.sample_count = cnt,
                          !.buffer_full = full]
        rot == [i \in 0..(DPT_PERIOD_RANGE - 1) |->
                  Rotate(d.real[i], d.imag[i],
                         buf[(current_idx + DPT_BUFFER_SIZE
                                - (DPT_MIN_PERIOD + i)) % DPT_BUFFER_SIZE],
                         ac_value, i)]
    IN [d1 EXCEPT !.real = [i \in 0..(DPT_PERIOD_RANGE - 1) |-> rot[i].re],
                  !.imag = [i \in 0..(DPT_PERIOD_RANGE - 1) |-> rot[i].im]]

\* dpt_transform_process, lines 427-478
dpt_transform_process(d, ac_value) ==
    LET buf == [d.recursive_buffer EXCEPT ![d.buffer_index] = ac_value]
        current_idx == d.buffer_index
        cnt  == (d.sample_count + 1) % 65536
        full == d.buffer_full \/ cnt >= DPT_BUFFER_SIZE
        d1   == [d EXCEPT !.recursive_buffer = buf,
                          !.buffer_index = (d.buffer_index + 1) % DPT_BUFFER_SIZE,
                          !.sample_count = cnt,
                          !.buffer_full = full]
    IN IF ~full THEN d1
       ELSE LET rot == [i \in 0..(DPT_PERIOD_RANGE - 1) |->
                          Rotate(d.real[i], d.imag[i],
                                 buf[(current_idx + DPT_BUFFER_SIZE
                                        - (DPT_MIN_PERIOD + i)) % DPT_BUFFER_SIZE],
                                 ac_value, i)]
            IN [d1 EXCEPT !.real = [i \in 0..(DPT_PERIOD_RANGE - 1) |-> rot[i].re],
                          !.imag = [i \in 0..(DPT_PERIOD_RANGE - 1) |-> rot[i].im]]

\* compute_magnitude_spectrum, lines 484-498
compute_magnitude_spectrum(d) ==
    [d EXCEPT !.magnitude = [i \in 0..(DPT_PERIOD_RANGE - 1) |->
                                Hypot(d.real[i], d.imag[i]) \div (DPT_MIN_PERIOD + i)]]


\* the number of magnitudes not above v
CountUpTo(mag, v) == Cardinality({i \in DOMAIN mag : mag[i] <= v})

\* the element at position k (from 0) of the sorted copy of mag, all of whose
\* values lie in lo..hi: the least v that at least k + 1 magnitudes do not
\* exceed
RECURSIVE SortedAt(_, _, _, _)
SortedAt(mag, k, lo, hi) ==
    IF lo >= hi THEN lo
    ELSE LET mid == (lo + hi) \div 2
         IN IF CountUpTo(mag, mid) >= k + 1
            THEN SortedAt(mag, k, lo, mid)
            ELSE SortedAt(mag, k, mid + 1, hi)

\* find_peak_period, lines 504-548
find_peak_period(d) ==
    LET max_magnitude == SetMax({d.magnitude[i] : i \in 0..(DPT_PERIOD_RANGE - 1)})
        peak_index == IF max_magnitude = 0 THEN 0
                      ELSE SetMin({i \in 0..(DPT_PERIOD_RANGE - 1) :
                                      d.magnitude[i] = max_magnitude})
        median_magnitude == SortedAt(d.magnitude, DPT_PERIOD_RANGE \div 2,
                                     0, max_magnitude)
        adaptive_threshold == MIN_PEAK_MAGNITUDE + median_magnitude \div 2
    IN IF max_magnitude < adaptive_threshold THEN 0
       ELSE DPT_MIN_PERIOD + peak_index

\* smooth_array, lines 553-568: the mean of the entries above zero
smooth_array(data, size) ==
    LET used == {i \in 0..(size - 1) : data[i] > 0}
        sum  == RangeSum([i \in 0..(size - 1) |-> IF data[i] > 0 THEN data[i] ELSE 0],
                         0, size - 1)
    IN IF used = {} THEN 0 ELSE sum \div Cardinality(used)

\* median_filter of ppg_algorithm_v2.c, lines 576-613: the median of the
\* entries above zero
M2_median_filter(data, size) ==
    LET used == {i \in 0..(size - 1) : data[i] > 0}
        valid_count == Cardinality(used)
        \* the entries above zero, in index order
        temp == [k \in 1..valid_count |->
                    data[CHOOSE i \in used :
                            Cardinality({j \in used : j < i}) = k - 1]]
    IN IF valid_count = 0 THEN 0
       ELSE IF valid_count = 1 THEN temp[1]
       ELSE IF valid_count % 2 = 0
            THEN (Sorted(temp, valid_count \div 2 - 1)
                    + Sorted(temp, valid_count \div 2)) \div 2
            ELSE Sorted(temp, valid_count \div 2)

\* DPT_Init, lines 84-108
DPT_Init ==
    [red_filter       |-> iir_filter_init,
     ir_filter        |-> iir_filter_init,
     red_dpt          |-> dpt_transform_init,
     ir_dpt           |-> dpt_transform_init,
     heart_rate       |-> 0,
     spo2             |-> 0,
     peak_period      |-> 0,
     ema_hr           |-> 0,
     last_valid_hr    |-> 0,
     stable_count     |-> 0,
     r_history        |-> [i \in 0..(DPT_R_SMOOTH_SIZE - 1) |-> 0],
     r_index          |-> 0,
     hr_history       |-> [i \in 0..(DPT_HR_SMOOTH_SIZE - 1) |-> 0],
     hr_index         |-> 0,
     hr_median_buffer |-> [i \in 0..(DPT_MEDIAN_SIZE - 1) |-> 0],
     hr_median_index  |-> 0,
     hr_valid         |-> FALSE,
     spo2_valid       |-> FALSE]

\* DPT_Process step 6 with a rejection that leaves ema_hr as it is
DPT_HeartRate_KeepEma(s) ==
    LET raw_hr == IF s.peak_period > 0 THEN (6000 * HRS) \div s.peak_period ELSE 0
    IN IF s.peak_period > 0 /\ raw_hr >= 30 * HRS /\ raw_hr <= 150 * HRS
       THEN LET mbuf == [s.hr_median_buffer EXCEPT ![s.hr_median_index] = raw_hr]
                median_hr == M2_median_filter(mbuf, DPT_MEDIAN_SIZE)
                hr_diff == median_hr - s.last_valid_hr
                limited == IF s.last_valid_hr > 0
                           THEN IF hr_diff > DPT_MAX_HR_CHANGE * HRS
                                THEN s.last_valid_hr + DPT_MAX_HR_CHANGE * HRS
                                ELSE IF hr_diff < -(DPT_MAX_HR_CHANGE * HRS)
                                THEN s.last_valid_hr - DPT_MAX_HR_CHANGE * HRS
                                ELSE median_hr
                           ELSE median_hr
                ema == IF s.ema_hr = 0 THEN limited
                       ELSE (15 * limited + 85 * s.ema_hr) \div 100
                hist == [s.hr_history EXCEPT ![s.hr_index] = ema]
                smoothed_hr == smooth_array(hist, DPT_HR_SMOOTH_SIZE)
                change == IF s.last_valid_hr > 0
                          THEN Abs(smoothed_hr - s.last_valid_hr) ELSE 0
                stable == IF change < 3 * HRS THEN (s.stable_count + 1) % 256 ELSE 0
            IN [s EXCEPT !.hr_median_buffer = mbuf,
                         !.hr_median_index = (s.hr_median_index + 1) % DPT_MEDIAN_SIZE,
                         !.ema_hr = ema,
                         !.hr_history = hist,
                         !.hr_index = (s.hr_index + 1) % DPT_HR_SMOOTH_SIZE,
                         !.stable_count = stable,
                         !.heart_rate = smoothed_hr,
                         !.last_valid_hr = smoothed_hr,
                         !.hr_valid = (stable >= 2)]
       ELSE [s EXCEPT !.hr_valid = FALSE, !.stable_count = 0]

\* DPT_Process step 6, lines 146-212: the heart rate
DPT_HeartRate(s) ==
    LET raw_hr == IF s.peak_period > 0 THEN (6000 * HRS) \div s.peak_period ELSE 0
    IN IF s.peak_period > 0 /\ raw_hr >= 30 * HRS /\ raw_hr <= 150 * HRS
       THEN LET mbuf == [s.hr_median_buffer EXCEPT ![s.hr_median_index] = raw_hr]
                median_hr == M2_median_filter(mbuf, DPT_MEDIAN_SIZE)
                hr_diff == median_hr - s.last_valid_hr
                limited == IF s.last_valid_hr > 0
                           THEN IF hr_diff > DPT_MAX_HR_CHANGE * HRS
                                THEN s.last_valid_hr + DPT_MAX_HR_CHANGE * HRS
                                ELSE IF hr_diff < -(DPT_MAX_HR_CHANGE * HRS)
                                THEN s.last_valid_hr - DPT_MAX_HR_CHANGE * HRS
                                ELSE median_hr
                           ELSE median_hr
                ema == IF s.ema_hr = 0 THEN limited
                       ELSE (15 * limited + 85 * s.ema_hr) \div 100
                hist == [s.hr_history EXCEPT ![s.hr_index] = ema]
                smoothed_hr == smooth_array(hist, DPT_HR_SMOOTH_SIZE)
                change == IF s.last_valid_hr > 0
                          THEN Abs(smoothed_hr - s.last_valid_hr) ELSE 0
                stable == IF change < 3 * HRS THEN (s.stable_count + 1) % 256 ELSE 0
            IN [s EXCEPT !.hr_median_buffer = mbuf,
                         !.hr_median_index = (s.hr_median_index + 1) % DPT_MEDIAN_SIZE,
                         !.ema_hr = ema,
                         !.hr_history = hist,
                         !.hr_index = (s.hr_index + 1) % DPT_HR_SMOOTH_SIZE,
                         !.stable_count = stable,
                         !.heart_rate = smoothed_hr,
                         !.last_valid_hr = smoothed_hr,
                         !.hr_valid = (stable >= 2)]
       ELSE [s EXCEPT !.hr_valid = FALSE, !.stable_count = 0, !.ema_hr = 0]

\* line 230: red_ratio / ir_ratio, in 1/1000
DPT_RValue(red_ac, red_dc, ir_ac, ir_dc) ==
    LET k == Max(red_ac, ir_ac) \div 1000000 + 1
        ratio == ((red_ac \div k) * RS) \div Max(1, ir_ac \div k)
    IN (Min(ratio, 1000000) * ((ir_dc * 1000) \div red_dc)) \div 1000

\* DPT_Process step 7 with gating failures that only skip the update
DPT_SpO2_SkipOnly(s) ==
    LET clear == [s EXCEPT !.spo2_valid = FALSE]
    IN IF s.peak_period > 0 /\ s.red_filter.dc_value > MIN_DC_VALUE
                            /\ s.ir_filter.dc_value > MIN_DC_VALUE
       THEN LET peak_idx == s.peak_period - DPT_MIN_PERIOD
                red_ac == s.red_dpt.magnitude[peak_idx]
                ir_ac  == s.ir_dpt.magnitude[peak_idx]
            IN IF peak_idx < DPT_PERIOD_RANGE /\ ir_ac > 0
               THEN LET r_value == DPT_RValue(red_ac, s.red_filter.dc_value,
                                              ir_ac, s.ir_filter.dc_value)
                        hist == [s.r_history EXCEPT ![s.r_index] = r_value]
                        r_smooth == smooth_array(hist, DPT_R_SMOOTH_SIZE)
                        spo2v == Polynomial(r_smooth)
                    IN [s EXCEPT !.r_history = hist,
                                 !.r_index = (s.r_index + 1) % DPT_R_SMOOTH_SIZE,
                                 !.spo2 = spo2v,
                                 !.spo2_valid = (spo2v >= 70 * PCT /\ spo2v <= 100 * PCT)]
               ELSE clear
       ELSE clear

\* DPT_Process step 7, lines 215-264: SpO2
DPT_SpO2(s) ==
    LET clear == [s EXCEPT !.spo2_valid = FALSE,
                           !.r_history = [i \in 0..(DPT_R_SMOOTH_SIZE - 1) |-> 0],
                           !.r_index = 0]
    IN IF s.peak_period > 0 /\ s.red_filter.dc_value > MIN_DC_VALUE
                            /\ s.ir_filter.dc_value > MIN_DC_VALUE
       THEN LET peak_idx == s.peak_period - DPT_MIN_PERIOD
                red_ac == s.red_dpt.magnitude[peak_idx]
                ir_ac  == s.ir_dpt.magnitude[peak_idx]
            IN IF peak_idx < DPT_PERIOD_RANGE /\ ir_ac > 0
               THEN LET r_value == DPT_RValue(red_ac, s.red_filter.dc_value,
                                              ir_ac, s.ir_filter.dc_value)
                        hist == [s.r_history EXCEPT ![s.r_index] = r_value]
                        r_smooth == smooth_array(hist, DPT_R_SMOOTH_SIZE)
                        spo2v == Polynomial(r_smooth)
                    IN [s EXCEPT !.r_history = hist,
                                 !.r_index = (s.r_index + 1) % DPT_R_SMOOTH_SIZE,
                                 !.spo2 = spo2v,
                                 !.spo2_valid = (spo2v >= 70 * PCT /\ spo2v <= 100 * PCT)]
               ELSE clear
       ELSE clear

\* the conditions of lines 215-226 under which a call reaches the polynomial
\* of line 245, read off the state the call leaves
PolynomialFed(s) ==
    /\ s.red_dpt.buffer_full /\ s.ir_dpt.buffer_full
    /\ s.peak_period > 0
    /\ s.red_filter.dc_value > MIN_DC_VALUE
    /\ s.ir_filter.dc_value > MIN_DC_VALUE
    /\ s.ir_dpt.magnitude[s.peak_period - DPT_MIN_PERIOD] > 0

\* the R-value that lines 233-234 stored last
LastRValue(s) ==
    s.r_history[(s.r_index + DPT_R_SMOOTH_SIZE - 1) % DPT_R_SMOOTH_SIZE]

\* DPT_Process, lines 113-268
DPT_Process(s, raw_red, raw_ir) ==
    LET red_f == iir_filter_process(s.red_filter, raw_red)
        ir_f  == iir_filter_process(s.ir_filter, raw_ir)
        red_d == dpt_transform_process(s.red_dpt, red_f.ac_value)
        ir_d  == dpt_transform_process(s.ir_dpt, ir_f.ac_value)
        s1    == [s EXCEPT !.red_filter = red_f, !.ir_filter = ir_f,
                           !.red_dpt = red_d, !.ir_dpt = ir_d]
    IN IF ~red_d.buffer_full \/ ~ir_d.buffer_full
       THEN [s1 EXCEPT !.hr_valid = FALSE, !.spo2_valid = FALSE]
       ELSE LET red_m == compute_magnitude_spectrum(red_d)
                ir_m  == compute_magnitude_spectrum(ir_d)
                s2    == [s1 EXCEPT !.red_dpt = red_m, !.ir_dpt = ir_m,
                                    !.peak_period = find_peak_period(ir_m)]
            IN DPT_SpO2(DPT_HeartRate(s2))


(***************************************************************************)
(* The conditioning filter (ppg_filter.c).  Raw samples and the baseline   *)
(* are kept in 1/10 of a count, the band-pass states and the AC output in  *)
(* 1/1000, the squares in 1/100 count^2 and the RMS in 1/100 of a count;   *)
(* the coefficients in 1/1000000.                                          *)
(***************************************************************************)
DETREND_WINDOW_SIZE == 32
SIGNAL_SMOOTH_SIZE == 5
NUM_SOS_SECTIONS == 2
\* scales of the baseline and of the band-pass values
DS == 10
BS == 1000

\* butterworth_sos, lines 8-25
butterworth_sos ==
    [i \in 0..(NUM_SOS_SECTIONS - 1) |->
        IF i = 0
        THEN [b0 |-> 7439, b1 |-> 0, b2 |-> -7439,
              a1 |-> -1863191, a2 |-> 874398]
        ELSE [b0 |-> 1000000, b1 |-> 0, b2 |-> -1000000,
              a1 |-> -1946323, a2 |-> 951245]]

\* PPG_Filter_Init, lines 31-40
PPG_Filter_Init ==
    [detrend_buffer |-> [i \in 0..(DETREND_WINDOW_SIZE - 1) |-> 0],
     detrend_index  |-> 0,
     detrend_sum    |-> 0,
     detrend_filled |-> 0,
     biquad_states  |-> [i \in 0..(NUM_SOS_SECTIONS - 1) |->
                           [x1 |-> 0, x2 |-> 0, y1 |-> 0, y2 |-> 0]],
     smooth_buffer  |-> [i \in 0..(SIGNAL_SMOOTH_SIZE - 1) |-> 0],
     smooth_index   |-> 0,
     dc_value       |-> 0,
     ac_squared_sum |-> 0,
     sample_count   |-> 0]

\* biquad_filter, lines 49-55: the output and the state left behind
biquad_filter(input, coeff, state) ==
    LET output == MulFix(input, coeff.b0) + state.x1
    IN [out |-> output,
        st  |-> [state EXCEPT
                   !.x1 = MulFix(input, coeff.b1) - MulFix(output, coeff.a1)
                            + state.x2,
                   !.x2 = MulFix(input, coeff.b2) - MulFix(output, coeff.a2)]]

\* detrend_signal without lines 65-68: the sample that leaves the window
\* stays in the running sum
detrend_signal_NoEvict(f, value) ==
    LET buf  == [f.detrend_buffer EXCEPT ![f.detrend_index] = value]
        sum1 == f.detrend_sum + value
        idx1 == f.detrend_index + 1
        wrap == idx1 >= DETREND_WINDOW_SIZE
        idx  == IF wrap THEN 0 ELSE idx1
        fill == IF wrap THEN 1 ELSE f.detrend_filled
        cnt0 == IF fill # 0 THEN DETREND_WINDOW_SIZE ELSE idx
        count == IF cnt0 = 0 THEN 1 ELSE cnt0
        baseline == sum1 \div count
    IN [out |-> value - baseline,
        st  |-> [f EXCEPT !.detrend_buffer = buf, !.detrend_sum = sum1,
                          !.detrend_index = idx, !.detrend_filled = fill,
                          !.dc_value = baseline]]

\* detrend_signal, lines 63-91: the detrended value and the state left behind
detrend_signal(f, value) ==
    LET sum0 == IF f.detrend_filled # 0
                THEN f.detrend_sum - f.detrend_buffer[f.detrend_index]
                ELSE f.detrend_sum
        buf  == [f.detrend_buffer EXCEPT ![f.detrend_index] = value]
        sum1 == sum0 + value
        idx1 == f.detrend_index + 1
        wrap == idx1 >= DETREND_WINDOW_SIZE
        idx  == IF wrap THEN 0 ELSE idx1
        fill == IF wrap THEN 1 ELSE f.detrend_filled
        cnt0 == IF fill # 0 THEN DETREND_WINDOW_SIZE ELSE idx
        count == IF cnt0 = 0 THEN 1 ELSE cnt0
        baseline == sum1 \div count
    IN [out |-> value - baseline,
        st  |-> [f EXCEPT !.detrend_buffer = buf, !.detrend_sum = sum1,
                          !.detrend_index = idx, !.detrend_filled = fill,
                          !.dc_value = baseline]]

\* smoothed * smoothed, line 122, of a value in 1/1000: in 1/100 count^2
Squared(v) == (TruncDiv(v, 10) * TruncDiv(v, 10)) \div 100

\* PPG_Filter_Process, lines 99-126: the AC value returned and the state left
\* behind.  sample_count is a uint32_t; the runs followed here stay far below
\* 2^32 calls between two reads of the RMS.
PPG_Filter_Process(f, raw_value) ==
    LET d    == detrend_signal(f, raw_value * DS)
        sec0 == biquad_filter(d.out * (BS \div DS), butterworth_sos[0],
                              d.st.biquad_states[0])
        sec1 == biquad_filter(sec0.out, butterworth_sos[1],
                              d.st.biquad_states[1])
        sbuf == [d.st.smooth_buffer EXCEPT ![d.st.smooth_index] = sec1.out]
        smoothed == TruncDiv(RangeSum(sbuf, 0, SIGNAL_SMOOTH_SIZE - 1),
                             SIGNAL_SMOOTH_SIZE)
    IN [ret |-> smoothed,
        st  |-> [d.st EXCEPT
                   !.biquad_states = [i \in 0..(NUM_SOS_SECTIONS - 1) |->
                                         IF i = 0 THEN sec0.st ELSE sec1.st],
                   !.smooth_buffer = sbuf,
                   !.smooth_index = (d.st.smooth_index + 1) % SIGNAL_SMOOTH_SIZE,
                   !.ac_squared_sum = d.st.ac_squared_sum + Squared(smoothed),
                   !.sample_count = d.st.sample_count + 1]]

\* PPG_Filter_GetDC, lines 133-135
PPG_Filter_GetDC(f) == [ret |-> f.dc_value, st |-> f]

\* sqrtf(mean_squared), line 148: in 1/100 of a count
RootOfMean(sum, count) == ISqrt((sum \div count) * 100)

\* PPG_Filter_GetACRMS that leaves the accumulator as it is
PPG_Filter_GetACRMS_NoClear(f) ==
    IF f.sample_count = 0 THEN [ret |-> 0, st |-> f]
    ELSE [ret |-> RootOfMean(f.ac_squared_sum, f.sample_count), st |-> f]

\* PPG_Filter_GetACRMS, lines 142-155
PPG_Filter_GetACRMS(f) ==
    IF f.sample_count = 0 THEN [ret |-> 0, st |-> f]
    ELSE [ret |-> RootOfMean(f.ac_squared_sum, f.sample_count),
          st  |-> [f EXCEPT !.ac_squared_sum = 0, !.sample_count = 0]]

(***************************************************************************)
(* The state of a run.                                                     *)
(***************************************************************************)
VARIABLES
    hr,          \* HR_State_t
    call,        \* the most recent HR_Calculate call: what it returned, the
                 \* return statement it left by, hr_valid before and after,
                 \* known_hr as the call found it (known), the signal its
                 \* window was sampled from (sig), whether a reading has been
                 \* accepted since HR_Init (ever) and since the last HR_Reset,
                 \* the application's or the call's own (fresh),
                 \* and the rejected calls in a row, this one included, since
                 \* the last accepted call or HR_Reset (streak)
    prev,        \* the HR_Calculate call before that one
    known_hr,    \* the value returned by the most recent accepted computation
    sig,         \* the signal the sensor sees: [T, dc], T = 0 is a flat line
    n,           \* samples fed so far
    since_calc,  \* samples fed since the last HR_Calculate call
    nevent,      \* disturbances so far: signal changes and application resets
    spo2,        \* SpO2_State_t
    sp_in,       \* the readings the filter currently hands to SpO2_Calculate
    sp_call,     \* the most recent SpO2_Calculate call
    sp_ncalc,    \* SpO2_Calculate calls so far
    sp_nevent,   \* changes of the readings and SpO2_Reset calls so far
    dpt,         \* DPT_State_t
    d_in,        \* the raw input the sensor delivers to DPT_Process
    d_n,         \* DPT_Process calls so far
    d_call,      \* the most recent DPT_Process call
    d_pub,        \* the heart rate published by the most recent call that left
                 \* hr_valid true, and the one published by the valid call
                 \* before it
    flt,         \* PPG_FilterState_t of one channel
    f_in,        \* the period of the pulse train the channel sees (0: flat)
    f_n,         \* PPG_Filter_Process calls so far
    f_out,       \* the AC values returned since the last PPG_Filter_GetACRMS
    f_call       \* the most recent call on the filter: which one (op), what
                 \* it returned, the state before and after it, and for a
                 \* read of the RMS the AC values returned since the last one

hrvars == << hr, call, prev, known_hr, sig, n, since_calc, nevent >>
spvars == << spo2, sp_in, sp_call, sp_ncalc, sp_nevent >>
dptvars == << dpt, d_in, d_n, d_call, d_pub >>
fltvars == << flt, f_in, f_n, f_out, f_call >>
vars == << hrvars, spvars, dptvars, fltvars >>

NoCall == [path |-> "none", ret |-> 0, valid |-> 0, valid_before |-> 0,
           reset |-> FALSE, cand |-> 0, delta |-> 0, streak |-> 0, known |-> 0,
           sig |-> [T |-> 0, dc |-> 0], ever |-> FALSE, fresh |-> FALSE]

\* the return statements of HR_Calculate that reject a full buffer
Rejections == {"quality", "peaks", "intervals", "range"}

\* the inputs: pulse trains of period T samples over a good DC level, a flat
\* line, and a pulse train over a lost DC level
Signals ==
    {[T |-> t, dc |-> DcGood] : t \in {0, 40, 50, 80, 160}}
        \cup {[T |-> 40, dc |-> DcLow]}

\* the AC value of sample k of signal T: one peak every T samples
Wave(T, k) ==
    IF T = 0 THEN 0
    ELSE LET ph == (k + T - (PulsePhase % T)) % T
             d  == Min(ph, T - ph)
         IN Max(0, PulseAmp - PulseSlope * d)

InitHr ==
    /\ hr = HR_Init
    /\ call = NoCall
    /\ prev = NoCall
    /\ known_hr = 0
    /\ n = 0
    /\ since_calc = 0
    /\ nevent = 0

\* the readings: a usable one for each R of interest, and one for each way
\* of being too weak
SpInputs ==
    {[red_ac_rms |-> a, red_dc |-> 1000, ir_ac_rms |-> 100, ir_dc |-> 1000] :
        a \in {9, 10, 50, 100, 200, 201}}
    \cup {[red_ac_rms |-> 50, red_dc |-> 999, ir_ac_rms |-> 100, ir_dc |-> 1000],
          [red_ac_rms |-> 50, red_dc |-> 1000, ir_ac_rms |-> 100, ir_dc |-> 999],
          [red_ac_rms |-> 50, red_dc |-> 1000, ir_ac_rms |-> 0, ir_dc |-> 1000]}

NoSpCall == [path |-> "none", ret |-> 0, valid |-> 0, last_before |-> 0,
             last_after |-> 0,
             in |-> CHOOSE i \in SpInputs : TRUE]

InitSp ==
    /\ spo2 = SpO2_Init
    /\ sp_call = NoSpCall
    /\ sp_ncalc = 0
    /\ sp_nevent = 0

\* one sample arrives: HR_AddSample(&hr_state, ac, dc)
AddSample ==
    /\ n < MaxSamples
    /\ since_calc < CalcInterval
    /\ hr' = HR_AddSample(hr, Wave(sig.T, n), sig.dc)
    /\ n' = n + 1
    /\ since_calc' = since_calc + 1
    /\ UNCHANGED << call, prev, known_hr, sig, nevent, spvars, dptvars, fltvars >>

\* heart_rate = HR_Calculate(&hr_state): what the call does to the state
\* and what is recorded of it
CalcStep ==
    /\ \E r \in {HR_Calculate(hr)} :
          /\ hr' = r.st
          /\ call' = [path |-> r.path, ret |-> r.ret, valid |-> r.st.hr_valid,
                      valid_before |-> hr.hr_valid, known |-> known_hr,
                      sig |-> sig,
                      ever |-> call.ever \/ r.path = "accepted",
                      fresh |-> IF r.reset THEN FALSE
                                ELSE call.fresh \/ r.path = "accepted",
                      reset |-> r.reset, cand |-> r.cand, delta |-> r.delta,
                      streak |-> IF r.path \in Rejections /\ ~r.reset
                                 THEN call.streak + 1
                                 ELSE IF r.path = "notfull" THEN call.streak
                                 ELSE 0]
          /\ known_hr' = IF r.path = "accepted" THEN r.ret ELSE known_hr
    /\ prev' = call
    /\ UNCHANGED << sig, n, nevent, spvars, dptvars, fltvars >>

\* the periodic call, once per window
Calculate == since_calc = CalcInterval /\ CalcStep /\ since_calc' = 0

\* a call made while the buffer is still filling (the per-sample loop of
\* main_usage_example.c calls HR_Calculate after every HR_AddSample)
CalculateEarly ==
    /\ n > 0
    /\ n < HR_BUFFER_SIZE
    /\ CalcStep
    /\ UNCHANGED since_calc

\* the finger moves: the signal changes between two calculation windows
SwitchSignal ==
    /\ since_calc = 0
    /\ n >= WarmupWindows * CalcInterval
    /\ n < MaxSamples
    /\ nevent < MaxEvents
    /\ \E s \in Signals \ {sig} : sig' = s
    /\ nevent' = nevent + 1
    /\ UNCHANGED << hr, call, prev, known_hr, n, since_calc, spvars, dptvars, fltvars >>

\* the application calls HR_Reset(&hr_state)
Reset ==
    /\ since_calc = 0
    /\ n > 0
    /\ nevent < MaxEvents
    /\ hr' = HR_Reset(hr)
    /\ known_hr' = 0
    /\ call' = [call EXCEPT !.streak = 0, !.fresh = FALSE]
    /\ nevent' = nevent + 1
    /\ UNCHANGED << prev, sig, n, since_calc, spvars, dptvars, fltvars >>

\* the raw inputs of Method 2: a pulse train of period T on both channels,
\* ir_gain and red_gain times the pulse shape on top of the DC levels
PulseInputs ==
    {[T |-> t, ir_gain |-> 4, red_gain |-> 2] : t \in {40, 80}}
        \cup {[T |-> 80, ir_gain |-> 4, red_gain |-> 0]}

\* a flickering input: a quiet level, one spike 200 samples before the buffer
\* fills, and eleven samples around the peak threshold from the moment it
\* is full, the same on both channels
Flicker == [T |-> 0, ir_gain |-> 0, red_gain |-> 0]

FlickerTail == << 974, 1052, 992, 1009, 991, 958, 1045, 957, 1045, 957, 999 >>

FlickerRaw(k) ==
    IF k = DPT_BUFFER_SIZE - DPT_MAX_PERIOD - 1 THEN 1110
    ELSE IF k >= DPT_BUFFER_SIZE - 1 /\ k < DPT_BUFFER_SIZE - 1 + Len(FlickerTail)
         THEN FlickerTail[k - DPT_BUFFER_SIZE + 2]
         ELSE 1000

\* a signal that is lost: the pulse train of period 80 over the DC level
\* LossDc on both channels for the first LossAt samples, the constant
\* LossLevel on both channels from then on
Loss == [T |-> 80, ir_gain |-> 4, red_gain |-> 1]

LossRaw(gain, k) ==
    IF k < LossAt THEN LossDc + gain * Wave(Loss.T, k) ELSE LossLevel

\* the flickering input over the DC level FlickerDc instead of 1000
FlickerHigh == [T |-> 0, ir_gain |-> 0, red_gain |-> 1]

DptInputs == PulseInputs \cup {Flicker, FlickerHigh, Loss}

\* no light at all: DPT_Process(&state, 0, 0) on every call
Quiet == [T |-> 0, ir_gain |-> 1, red_gain |-> 1]

RawIr(in, k) ==
    IF in = Quiet THEN 0
    ELSE IF in = Flicker THEN FlickerRaw(k)
    ELSE IF in = FlickerHigh THEN FlickerDc + FlickerRaw(k) - 1000
    ELSE IF in = Loss THEN LossRaw(in.ir_gain, k)
    ELSE DptIrDc + in.ir_gain * Wave(in.T, k)
RawRed(in, k) ==
    IF in = Quiet THEN 0
    ELSE IF in = Flicker THEN FlickerRaw(k)
    ELSE IF in = FlickerHigh THEN FlickerDc + FlickerRaw(k) - 1000
    ELSE IF in = Loss THEN LossRaw(in.red_gain, k)
    ELSE DptRedDc + in.red_gain * Wave(in.T, k)

NoDptCall == [full |-> FALSE, peak_period |-> 0, hr_valid |-> FALSE,
              spo2_valid |-> FALSE, poly |-> FALSE, r_value |-> 0,
              accepted |-> FALSE, after_reject |-> FALSE, limited |-> 0,
              dropped |-> 0, scratch |-> 0, after_gate |-> FALSE]
NoDptPub == [count |-> 0, last |-> 0, before |-> 0]

InitDptState ==
    /\ dpt = DPT_Init
    /\ d_n = 0
    /\ d_call = NoDptCall
    /\ d_pub = NoDptPub

\* Method 1 heart rate on its own: the other states stay as initialised
\* the call record before any call on the filter
NoFltCall == [op |-> "none", ret |-> 0, before |-> PPG_Filter_Init,
              after |-> PPG_Filter_Init, since |-> << >>]

InitFltState ==
    /\ flt = PPG_Filter_Init
    /\ f_n = 0
    /\ f_out = << >>
    /\ f_call = NoFltCall

Init ==
    /\ InitHr /\ sig \in Signals
    /\ InitSp /\ sp_in = NoSpCall.in
    /\ InitDptState /\ d_in = CHOOSE i \in DptInputs : TRUE
    /\ InitFltState /\ f_in = 0

Next == AddSample \/ Calculate \/ CalculateEarly \/ SwitchSignal \/ Reset

Spec == Init /\ [][Next]_vars

\* the periodic spo2 = SpO2_Calculate(&spo2_state, red_ac_rms, red_dc, ...)
SpCalculate ==
    /\ sp_ncalc < MaxSpCalls
    /\ LET r == SpO2_Calculate(spo2, sp_in.red_ac_rms, sp_in.red_dc,
                               sp_in.ir_ac_rms, sp_in.ir_dc)
       IN /\ spo2' = r.st
          /\ sp_call' = [path |-> r.path, ret |-> r.ret, valid |-> r.st.spo2_valid,
                         last_before |-> spo2.last_spo2,
                         last_after |-> r.st.last_spo2, in |-> sp_in]
    /\ sp_ncalc' = sp_ncalc + 1
    /\ UNCHANGED << sp_in, sp_nevent, hrvars, dptvars, fltvars >>

\* the readings change between two calls
SpChange ==
    /\ sp_nevent < MaxSpEvents
    /\ sp_ncalc > 0
    /\ sp_ncalc < MaxSpCalls
    /\ \E i \in SpInputs \ {sp_in} : sp_in' = i
    /\ sp_nevent' = sp_nevent + 1
    /\ UNCHANGED << spo2, sp_call, sp_ncalc, hrvars, dptvars, fltvars >>

\* the application calls SpO2_Reset(&spo2_state)
SpReset ==
    /\ sp_nevent < MaxSpEvents
    /\ sp_ncalc > 0
    /\ spo2' = SpO2_Reset(spo2)
    /\ sp_nevent' = sp_nevent + 1
    /\ UNCHANGED << sp_in, sp_call, sp_ncalc, hrvars, dptvars, fltvars >>

\* Method 1 SpO2 on its own: the heart-rate state stays as initialised
InitSpO2 ==
    /\ InitHr /\ sig = [T |-> 0, dc |-> DcGood]
    /\ InitSp /\ sp_in \in SpInputs
    /\ InitDptState /\ d_in = CHOOSE i \in DptInputs : TRUE
    /\ InitFltState /\ f_in = 0

NextSpO2 == SpCalculate \/ SpChange \/ SpReset

SpecSpO2 == InitSpO2 /\ [][NextSpO2]_vars

\* lines 146-150: the heart-rate path is taken, not one of the two
\* rejection branches
HrPathTaken(peak_period) ==
    /\ peak_period > 0
    /\ (6000 * HRS) \div peak_period >= 30 * HRS
    /\ (6000 * HRS) \div peak_period <= 150 * HRS

\* lines 160-167: the median after the rate limit against last_valid_hr
RateLimited(median_hr, last_valid_hr) ==
    IF last_valid_hr <= 0 THEN median_hr
    ELSE IF median_hr - last_valid_hr > DPT_MAX_HR_CHANGE * HRS
    THEN last_valid_hr + DPT_MAX_HR_CHANGE * HRS
    ELSE IF median_hr - last_valid_hr < -(DPT_MAX_HR_CHANGE * HRS)
    THEN last_valid_hr - DPT_MAX_HR_CHANGE * HRS
    ELSE median_hr

\* the heart rate step 6 publishes for peak_period in the run that differs
\* from the one leading to s only in the contents of hr_median_buffer and
\* hr_history and in last_valid_hr, which it has as DPT_Init leaves them
FromScratch(s, peak_period) ==
    DPT_HeartRate([s EXCEPT
        !.peak_period = peak_period,
        !.hr_median_buffer = [i \in 0..(DPT_MEDIAN_SIZE - 1) |-> 0],
        !.hr_history = [i \in 0..(DPT_HR_SMOOTH_SIZE - 1) |-> 0],
        !.last_valid_hr = 0]).heart_rate

\* one sample pair arrives: DPT_Process(&state, raw_red, raw_ir)
DptStep ==
    /\ \E s \in {DPT_Process(dpt, RawRed(d_in, d_n), RawIr(d_in, d_n))} :
       LET fed == PolynomialFed(s)
           full == s.ir_dpt.buffer_full /\ s.red_dpt.buffer_full
           accepted == full /\ HrPathTaken(s.peak_period)
       IN /\ dpt' = s
          /\ d_call' = [full |-> s.ir_dpt.buffer_full /\ s.red_dpt.buffer_full,
                        peak_period |-> s.peak_period,
                        hr_valid |-> s.hr_valid,
                        spo2_valid |-> s.spo2_valid,
                        poly |-> fed,
                        r_value |-> IF fed THEN LastRValue(s) ELSE 0,
                        accepted |-> accepted,
                        after_reject |-> d_call.full /\ ~d_call.accepted,
                        limited |-> IF accepted
                                    THEN RateLimited(
                                           M2_median_filter(s.hr_median_buffer,
                                                            DPT_MEDIAN_SIZE),
                                           dpt.last_valid_hr)
                                    ELSE 0,
                        dropped |-> IF full /\ ~accepted /\ dpt.ema_hr # 0
                                    THEN dpt.ema_hr ELSE d_call.dropped,
                        scratch |-> IF accepted
                                    THEN FromScratch(dpt, s.peak_period)
                                    ELSE 0,
                        after_gate |-> d_call.full /\ ~d_call.poly]
          /\ d_pub' = IF s.hr_valid
                      THEN [count |-> Min(d_pub.count + 1, 2),
                            last |-> s.heart_rate, before |-> d_pub.last]
                      ELSE d_pub
    /\ d_n' = d_n + 1
    /\ UNCHANGED << d_in, hrvars, spvars, fltvars >>

DptProcess == d_n < MaxDptSamples /\ DptStep

\* Method 2 on its own: the states of Method 1 stay as initialised
InitDPT ==
    /\ InitHr /\ sig = [T |-> 0, dc |-> DcGood]
    /\ InitSp /\ sp_in = NoSpCall.in
    /\ InitDptState /\ d_in \in DptInputs
    /\ InitFltState /\ f_in = 0

NextDPT == DptProcess

SpecDPT == InitDPT /\ [][NextDPT]_vars

\* DPT_State_t after WrapStart calls DPT_Process(&state, 0, 0) since DPT_Init:
\* with both raw values 0 the filters, the buffers, the accumulators and
\* the results stay as DPT_Init left them; only sample_count, buffer_index
\* and buffer_full of the two transforms have moved
LateTransform ==
    [dpt_transform_init EXCEPT !.sample_count = WrapStart % 65536,
                               !.buffer_index = WrapStart % DPT_BUFFER_SIZE,
                               !.buffer_full = WrapStart >= DPT_BUFFER_SIZE]

LateState == [DPT_Init EXCEPT !.red_dpt = LateTransform, !.ir_dpt = LateTransform]

\* the calls of the long quiet run that the model follows
DptProcessLate ==
    /\ d_n >= WrapStart
    /\ d_n < WrapStart + WrapCalls
    /\ DptStep

\* the buffers of both estimators: a Method 1 run with Method 2 as
\* initialised, or a Method 2 run with Method 1 as initialised (the two
\* estimators share no state), the Method 2 run from DPT_Init or, for the
\* quiet input, from the late state
InitFill ==
    /\ InitHr /\ InitSp /\ sp_in = NoSpCall.in
    /\ InitFltState /\ f_in = 0
    /\ d_call = NoDptCall /\ d_pub = NoDptPub
    /\ \/ sig \in Signals /\ d_in = Quiet /\ dpt = DPT_Init /\ d_n = 0
       \/ /\ sig = [T |-> 0, dc |-> DcGood]
          /\ d_in \in PulseInputs /\ dpt = DPT_Init /\ d_n = 0
       \/ /\ sig = [T |-> 0, dc |-> DcGood]
          /\ d_in = Quiet /\ dpt = LateState /\ d_n = WrapStart

HrRun == d_in = Quiet /\ d_n = 0 /\ (AddSample \/ Calculate \/ CalculateEarly \/ SwitchSignal \/ Reset)

DptRun == n = 0 /\ sig = [T |-> 0, dc |-> DcGood] /\ (DptProcess \/ DptProcessLate)

NextFill == HrRun \/ DptRun

SpecFill == InitFill /\ [][NextFill]_vars

\* the per-sample loop of main_usage_example.c: HR_AddSample, then
\* HR_Calculate, on every sample, so that the scan sees the buffer at every
\* write position; pulse trains of short periods put local maxima closer
\* than MIN_PEAK_DISTANCE in it
ScanSignals == {[T |-> t, dc |-> DcGood] : t \in {8, 13, 20, 27, 33, 40, 50, 60}}

InitScan ==
    /\ InitHr /\ sig \in ScanSignals
    /\ InitSp /\ sp_in = NoSpCall.in
    /\ InitDptState /\ d_in = CHOOSE i \in DptInputs : TRUE
    /\ InitFltState /\ f_in = 0

ScanAdd ==
    /\ since_calc = 0
    /\ n < MaxScanSamples
    /\ hr' = HR_AddSample(hr, Wave(sig.T, n), sig.dc)
    /\ n' = n + 1
    /\ since_calc' = 1
    /\ UNCHANGED << call, prev, known_hr, sig, nevent, spvars, dptvars, fltvars >>

ScanCalc == since_calc = 1 /\ CalcStep /\ since_calc' = 0

NextScan == ScanAdd \/ ScanCalc

SpecScan == InitScan /\ [][NextScan]_vars

\* the raw samples of one channel: pulses of period T over the DC level, or
\* the converter near its 18-bit full scale (input FltSaturated)
FltInputs == {0, 20, 40, FltSaturated}

FltRaw(T, k) == IF T = FltSaturated THEN FltFullScale - (k % 3)
                ELSE FltDc + Wave(T, k)

\* one raw sample arrives: PPG_Filter_Process(&filter, raw_value)
FltProcess ==
    /\ f_n < MaxFltSamples
    /\ \E r \in {PPG_Filter_Process(flt, FltRaw(f_in, f_n))} :
          /\ flt' = r.st
          /\ f_out' = Append(f_out, r.ret)
          /\ f_call' = [op |-> "process", ret |-> r.ret, before |-> flt,
                        after |-> r.st, since |-> << >>]
    /\ f_n' = f_n + 1
    /\ UNCHANGED << f_in, hrvars, spvars, dptvars >>

\* the application reads the RMS: PPG_Filter_GetACRMS(&filter)
FltGetACRMS ==
    /\ \E r \in {PPG_Filter_GetACRMS(flt)} :
          /\ flt' = r.st
          /\ f_call' = [op |-> "rms", ret |-> r.ret, before |-> flt,
                        after |-> r.st, since |-> f_out]
    /\ f_out' = << >>
    /\ UNCHANGED << f_in, f_n, hrvars, spvars, dptvars >>

\* the application reads the baseline: PPG_Filter_GetDC(&filter)
FltGetDC ==
    /\ \E r \in {PPG_Filter_GetDC(flt)} :
          /\ flt' = r.st
          /\ f_call' = [op |-> "dc", ret |-> r.ret, before |-> flt,
                        after |-> r.st, since |-> << >>]
    /\ UNCHANGED << f_in, f_n, f_out, hrvars, spvars, dptvars >>

\* the filter on its own: the estimators stay as initialised
InitFilter ==
    /\ InitHr /\ sig = [T |-> 0, dc |-> DcGood]
    /\ InitSp /\ sp_in = NoSpCall.in
    /\ InitDptState /\ d_in = CHOOSE i \in DptInputs : TRUE
    /\ InitFltState /\ f_in \in FltInputs

NextFilter == FltProcess \/ FltGetACRMS \/ FltGetDC

SpecFilter == InitFilter /\ [][NextFilter]_vars


(***************************************************************************)
(* Method 1, heart rate: the properties.                                   *)
(***************************************************************************)
\* the signal has been one clean pulse train of a documented period over a
\* good DC level since the first sample
SteadyInRange ==
    /\ nevent = 0
    /\ sig.dc = DcGood
    /\ sig.T >= MIN_PEAK_DISTANCE
    /\ sig.T <= MAX_PEAK_DISTANCE

\* the run is over: every sample is fed and the last window is calculated
RunEnd == n = MaxSamples /\ since_calc = 0 /\ call.path # "none"

\* C3: a clean pulse train with one peak every T samples, T anywhere from
\* MIN_PEAK_DISTANCE to MAX_PEAK_DISTANCE, is measured: by the end of the run
\* HR_Calculate has set hr_valid and returns a rate within 2 bpm of 6000/T.
C3_MeasuresDocumentedRange ==
    (SteadyInRange /\ RunEnd) =>
        /\ call.path = "accepted"
        /\ call.valid = 1
        /\ Abs(call.ret * sig.T - 6000 * HRS) <= 2 * HRS * sig.T

\* the period of 75 bpm, steady for the whole run, at the run's last call
C3_Witness == SteadyInRange /\ RunEnd /\ sig.T = 80

\* C4: every rejecting HR_Calculate call on a full buffer leaves hr_valid = 0
\* and returns the value returned by the most recent accepted computation.
C4_RejectReturnsLastKnown ==
    call.path \in Rejections => (call.valid = 0 /\ call.ret = call.known)

\* a rejecting call on which the counter reaches the threshold, after an
\* accepted reading
C4_Witness == call.path \in Rejections /\ call.reset /\ call.known > 0

\* C5: every kind of rejection feeds the same counter and reset path: the
\* rejected calls in a row never number INVALID_RESET_THRESHOLD without the
\* last of them having run HR_Reset.
C5_EveryRejectionCounts == call.streak < INVALID_RESET_THRESHOLD

\* two calls in a row rejected for fewer than 2 peaks
C5_Witness == call.path = "peaks" /\ prev.path = "peaks"

\* C8: two consecutive HR_Calculate calls that both accept a reading and leave
\* hr_valid = 1 return values at most MAX_HR_CHANGE bpm apart.
C8_RateLimited ==
    (/\ prev.path = "accepted" /\ prev.valid = 1
     /\ call.path = "accepted" /\ call.valid = 1)
        => Abs(call.ret - prev.ret) <= MAX_HR_CHANGE * HRS

\* two such calls, the raw reading of the second more than MAX_HR_CHANGE bpm
\* away from the value returned before it, and the returned value moved
C8_Witness ==
    /\ prev.path = "accepted" /\ prev.valid = 1
    /\ call.path = "accepted" /\ call.valid = 1
    /\ Abs(call.cand - prev.ret) > MAX_HR_CHANGE * HRS
    /\ call.ret # prev.ret

\* C10: hr_valid goes from 0 to 1 only in a call that accepted a reading with
\* an EMA delta under 6 bpm, the call immediately before it having done the
\* same; a rejected call in between breaks the sequence.
C10_ValidNeedsTwoInARow ==
    (call.valid = 1 /\ call.valid_before = 0) =>
        /\ call.path = "accepted" /\ call.delta < 6 * HRS
        /\ prev.path = "accepted" /\ prev.delta < 6 * HRS

\* hr_valid rises in a call
C10_Witness == call.valid = 1 /\ call.valid_before = 0


(***************************************************************************)
(* Method 1, SpO2: the properties.                                         *)
(***************************************************************************)
\* the input gates of the latest SpO2_Calculate call, read off its arguments
SpGatesPassed ==
    /\ sp_call.in.red_dc >= 1000
    /\ sp_call.in.ir_dc >= 1000
    /\ sp_call.in.ir_ac_rms >= 1
    /\ 10 * sp_call.in.red_ac_rms * sp_call.in.ir_dc
            >= sp_call.in.red_dc * sp_call.in.ir_ac_rms
    /\ sp_call.in.red_ac_rms * sp_call.in.ir_dc
            <= 2 * sp_call.in.red_dc * sp_call.in.ir_ac_rms

\* C6: SpO2_Calculate sets spo2_valid = 1 and updates last_spo2 only in a call
\* whose DC levels are at least 1000, whose IR AC RMS is at least 1, whose R
\* lies in [0.1, 2.0] and whose polynomial result lies in [70, 100]; so
\* whenever spo2_valid = 1, last_spo2 is in [70, 100] and every averaged slot
\* of r_history is in [0.1, 2.0].
C6_SpO2Gated ==
    /\ (sp_call.path # "none"
            /\ (sp_call.valid = 1 \/ sp_call.last_after # sp_call.last_before))
        => (/\ SpGatesPassed
            /\ sp_call.last_after >= 70 * PCT
            /\ sp_call.last_after <= 100 * PCT)
    /\ spo2.spo2_valid = 1
        => (/\ spo2.last_spo2 >= 70 * PCT
            /\ spo2.last_spo2 <= 100 * PCT
            /\ \A i \in 0..(spo2.r_history_count - 1) :
                    /\ 10 * spo2.r_history[i] >= RS
                    /\ spo2.r_history[i] <= 2 * RS)

\* a valid reading published from a full history that has wrapped around and
\* holds different R-values, after a call that was turned down
C6_Witness ==
    /\ spo2.spo2_valid = 1
    /\ sp_call.path = "published"
    /\ spo2.r_history_count = 10
    /\ spo2.r_history_index = 1
    /\ \E i, j \in 0..9 : spo2.r_history[i] # spo2.r_history[j]
    /\ sp_nevent > 0


(***************************************************************************)
(* Method 2: the properties.                                               *)
(***************************************************************************)
\* tolerance, in counts, when an accumulator is compared with a sum that was
\* computed by another sequence of fixed-point roundings
AccTolerance == 2

\* the k-th most recent AC sample of the window (k = 0 is the newest one)
WindowSample(d, k) ==
    d.recursive_buffer[(d.buffer_index + 2 * DPT_BUFFER_SIZE - 1 - k)
                           % DPT_BUFFER_SIZE]

\* the recurrence of lines 455-476 run from a zero accumulator over the
\* samples of age from, from - 1, ..., to with nothing to subtract
RECURSIVE WindowRange(_, _, _, _, _)
WindowRange(d, i, acc, from, to) ==
    IF from < to THEN acc
    ELSE IF from - to >= 16
    THEN LET mid  == (from + to) \div 2
             half == WindowRange(d, i, acc, from, mid + 1)
         IN IF half.re \in Int THEN WindowRange(d, i, half, mid, to) ELSE half
    ELSE WindowRange(d, i, Rotate(acc.re, acc.im, 0, WindowSample(d, from), i),
                     from - 1, to)

\* the period-P transform sum of the most recent P samples, from scratch
WindowSum(d, i) ==
    WindowRange(d, i, [re |-> 0, im |-> 0], DPT_MIN_PERIOD + i - 1, 0)

AccumulatorIsWindowSum(d, i) ==
    LET w == WindowSum(d, i)
    IN /\ Abs(d.real[i] - w.re) <= AccTolerance * AS
       /\ Abs(d.imag[i] - w.im) <= AccTolerance * AS

\* C1: after every DPT_Process call made with the buffer full, each
\* accumulator of each channel is the transform sum of the most recent P
\* samples of recursive_buffer, as a from-scratch computation gives it.
C1_AccumulatorIsWindowSum ==
    d_call.full =>
        \A i \in 0..(DPT_PERIOD_RANGE - 1) :
            /\ AccumulatorIsWindowSum(dpt.ir_dpt, i)
            /\ AccumulatorIsWindowSum(dpt.red_dpt, i)

\* the first call with the buffer full leaves an accumulator that is not the
\* sum of its window
C1_Witness ==
    /\ d_n = DPT_BUFFER_SIZE
    /\ d_call.full
    /\ \E i \in {0, DPT_PERIOD_RANGE - 1} : ~AccumulatorIsWindowSum(dpt.ir_dpt, i)

\* a clean pulse train of period T on both channels, DC levels above
\* MIN_DC_VALUE, present from the first sample
CleanPeriodic ==
    /\ d_in \in PulseInputs
    /\ d_in.ir_gain > 0 /\ d_in.red_gain > 0
    /\ d_in.T >= DPT_MIN_PERIOD /\ d_in.T <= DPT_MAX_PERIOD
    /\ DptRedDc > MIN_DC_VALUE /\ DptIrDc > MIN_DC_VALUE

\* 6000 / peak_period within 2 bpm of 6000 / T
WithinTwoBpm(period, T) ==
    period > 0 /\ Abs(6000 * T - 6000 * period) <= 2 * T * period

\* C2: for a clean periodic input of period P, once the 1000-sample warm-up
\* and one further longest period have passed, every call reports a peak
\* period whose heart rate is within 2 bpm of 6000/P, and the run ends with
\* hr_valid and spo2_valid true.
C2_ConvergesToPeriod ==
    (CleanPeriodic /\ d_n >= DPT_BUFFER_SIZE + DPT_MAX_PERIOD) =>
        /\ WithinTwoBpm(d_call.peak_period, d_in.T)
        /\ (d_n = MaxDptSamples => (d_call.hr_valid /\ d_call.spo2_valid))

\* a clean periodic input is published as valid at a heart rate more than
\* 2 bpm away from its own
C2_Witness ==
    /\ CleanPeriodic
    /\ d_n >= DPT_BUFFER_SIZE + DPT_MAX_PERIOD
    /\ d_call.hr_valid
    /\ ~WithinTwoBpm(d_call.peak_period, d_in.T)

RInRange(r) == r >= RS \div 10 /\ r <= 2 * RS

\* C7: whenever a call evaluates the calibration polynomial, the value it
\* evaluates it at is an average of R-values within [0.1, 2.0]: no stored
\* R-value that enters the average is outside the range, and there is one.
C7_OnlyRInRangeFed ==
    d_call.poly =>
        /\ \A i \in 0..(DPT_R_SMOOTH_SIZE - 1) :
               dpt.r_history[i] > 0 => RInRange(dpt.r_history[i])
        /\ \E i \in 0..(DPT_R_SMOOTH_SIZE - 1) : dpt.r_history[i] > 0

\* a call computes an R-value below 0.1, evaluates the polynomial and leaves
\* spo2_valid true
C7_Witness ==
    /\ d_call.poly
    /\ d_call.r_value < RS \div 10
    /\ d_call.spo2_valid

\* C9: the heart rates published by two consecutive valid computations
\* (calls that leave hr_valid true, rejected calls between them or not)
\* differ by at most DPT_MAX_HR_CHANGE bpm.
C9_RateLimited ==
    d_pub.count >= 2 => Abs(d_pub.last - d_pub.before) <= DPT_MAX_HR_CHANGE * HRS

\* two valid computations with only rejected and not yet stable calls
\* between them publish heart rates more than DPT_MAX_HR_CHANGE apart
C9_Witness ==
    /\ d_in = Flicker
    /\ d_call.hr_valid
    /\ d_pub.count >= 2
    /\ d_pub.last - d_pub.before > DPT_MAX_HR_CHANGE * HRS

\* the input has been at the loss level for a longest period or more
SignalLost == d_in = Loss /\ d_n >= LossAt + DPT_MAX_PERIOD

\* C11: once the raw input has been at a loss-of-signal level for a bounded
\* number of calls (one longest period), hr_valid and spo2_valid are false
\* and stable_count is 0, and they stay so while the input persists.
C11_LossInvalidates ==
    SignalLost =>
        (~dpt.hr_valid /\ ~dpt.spo2_valid /\ dpt.stable_count = 0)

\* the input has been lost for a longest period, both DC levels are below
\* MIN_DC_VALUE, and the heart rate is still published as valid
C11_Witness ==
    /\ SignalLost
    /\ dpt.ir_filter.dc_value < MIN_DC_VALUE
    /\ dpt.red_filter.dc_value < MIN_DC_VALUE
    /\ dpt.hr_valid
    /\ dpt.stable_count > 0

(***************************************************************************)
(* Method 1: signal loss, the EMA, the buffer-full flag, resets.           *)
(***************************************************************************)
\* a lost signal: a flat AC value, or a DC value not above the 1000 guard of
\* HR_AddSample
LossSignal(s) == s.T = 0 \/ s.dc <= 1000

\* c is an HR_Calculate call on a full buffer whose whole window was sampled
\* from a lost signal
LossCall(c) == c.path \notin {"none", "notfull"} /\ LossSignal(c.sig)

\* C12: when hr_valid is 1 and every later sample is a lost signal, the
\* first following HR_Calculate call leaves hr_valid = 0 (so hr_valid never
\* survives a call made on a lost signal), and after INVALID_RESET_THRESHOLD
\* calls in a row on a lost signal stable_count is 0.
C12_LossInvalidates ==
    /\ (LossCall(call) /\ call.valid_before = 1) => call.valid = 0
    /\ (LossCall(call) /\ LossCall(prev)) => hr.stable_count = 0

\* hr_valid was 1, a whole window of pulses over a lost DC level followed,
\* and the call on it accepted a reading and left hr_valid = 1
C12_Witness ==
    /\ LossCall(call)
    /\ call.sig.dc <= 1000
    /\ call.valid_before = 1
    /\ call.path = "accepted"
    /\ call.valid = 1

\* C13 as stated: ema_hr is zero exactly when no reading has ever been
\* accepted by HR_Calculate since HR_Init.
C13_EmaZeroIffNeverAccepted == (hr.ema_hr = 0) <=> ~call.ever

\* C13: ema_hr is zero exactly when no reading has been accepted by
\* HR_Calculate since HR_Init or the most recent HR_Reset, whether the
\* application called it or HR_Calculate did on its second quality rejection
\* in a row.
C13_EmaZeroIffNoneSinceReset == (hr.ema_hr = 0) <=> ~call.fresh

\* a reading was accepted, HR_Reset ran after it, and ema_hr is zero
C13_Witness == call.ever /\ ~call.fresh /\ hr.ema_hr = 0

\* C14: the buffer-full flag of each estimator is set by the call that fills
\* the buffer and by no other, and is never cleared again: it is set exactly
\* when HR_BUFFER_SIZE samples (Method 1) or DPT_BUFFER_SIZE sample pairs
\* (Method 2, each channel) have been fed since HR_Init / DPT_Init, whatever
\* HR_Calculate and HR_Reset calls were made and also after the 16-bit
\* sample_count has wrapped.
C14_BufferFullSticky ==
    /\ (hr.buffer_full = 1) <=> (n >= HR_BUFFER_SIZE)
    /\ dpt.ir_dpt.buffer_full <=> (d_n >= DPT_BUFFER_SIZE)
    /\ dpt.red_dpt.buffer_full <=> (d_n >= DPT_BUFFER_SIZE)

\* sample_count has wrapped past 65535 and the flag is still set
C14_Witness ==
    /\ d_n > 65536
    /\ dpt.ir_dpt.sample_count < DPT_BUFFER_SIZE
    /\ dpt.ir_dpt.buffer_full
    /\ dpt.red_dpt.buffer_full

(***************************************************************************)
(* Method 2: the warm-up, the rejections of the heart-rate path.           *)
(***************************************************************************)
AllZero(a) == \A i \in DOMAIN a : a[i] = 0

\* the accumulators and the spectrum of one channel are all zero
TransformIdle(d) == AllZero(d.real) /\ AllZero(d.imag) /\ AllZero(d.magnitude)

\* the results and the smoothing state of DPT_State_t
Smoothing(s) ==
    [heart_rate |-> s.heart_rate, spo2 |-> s.spo2, ema_hr |-> s.ema_hr,
     last_valid_hr |-> s.last_valid_hr, stable_count |-> s.stable_count,
     r_history |-> s.r_history, r_index |-> s.r_index,
     hr_history |-> s.hr_history, hr_index |-> s.hr_index,
     hr_median_buffer |-> s.hr_median_buffer,
     hr_median_index |-> s.hr_median_index]

C16_RejectionResetsEma ==
    /\ (d_call.full /\ ~d_call.accepted) =>
          (~dpt.hr_valid /\ dpt.stable_count = 0 /\ dpt.ema_hr = 0)
    /\ (d_call.accepted /\ d_call.after_reject) => dpt.ema_hr = d_call.limited

\* an accepted call after a rejection that dropped a non-zero EMA: the new
\* EMA is the rate-limited median and differs from the blend with the old one
C16_Witness ==
    /\ d_call.accepted /\ d_call.after_reject
    /\ d_call.dropped > 0
    /\ dpt.ema_hr = d_call.limited
    /\ dpt.ema_hr # (15 * d_call.limited + 85 * d_call.dropped) \div 100

(***************************************************************************)
(* Method 1: what a rejected SpO2_Calculate call leaves behind.            *)
(***************************************************************************)
SpRejected(c) == c.path \in {"weak", "r_range", "spo2_range"}

\* C17: a SpO2_Calculate call that rejects (a DC level below 1000, ir_ac_rms
\* below 1, R outside [0.1, 2.0] or the polynomial outside [70, 100]) returns
\* the value last_spo2 held before the call, leaves last_spo2 unchanged and
\* leaves spo2_valid = 0; a call that changes last_spo2 or leaves
\* spo2_valid = 1 is a successful one, and a successful one leaves
\* spo2_valid = 1 and last_spo2 equal to the value it returns.
C17_RejectionKeepsLastSpO2 ==
    /\ SpRejected(sp_call) =>
          /\ sp_call.ret = sp_call.last_before
          /\ sp_call.last_after = sp_call.last_before
          /\ sp_call.valid = 0
    /\ (sp_call.last_after # sp_call.last_before \/ sp_call.valid = 1) =>
          sp_call.path = "published"
    /\ sp_call.path = "published" =>
          (sp_call.valid = 1 /\ sp_call.last_after = sp_call.ret)

\* a rejection after a value has been published: the call returned that value
C17_Witness ==
    /\ SpRejected(sp_call)
    /\ sp_call.last_before > 0
    /\ sp_call.ret = sp_call.last_before
    /\ spo2.spo2_valid = 0

(***************************************************************************)
(* The conditioning filter: reading the RMS and the baseline.              *)
(***************************************************************************)
\* the root of the mean of the squares of the AC values in outs, 0 if none
RmsOf(outs) ==
    IF Len(outs) = 0 THEN 0
    ELSE RootOfMean(RangeSum([i \in 1..Len(outs) |-> Squared(outs[i])],
                             1, Len(outs)),
                    Len(outs))

\* C18: PPG_Filter_GetACRMS returns the RMS of the AC values returned by the
\* PPG_Filter_Process calls made since the previous PPG_Filter_GetACRMS call
\* (or since PPG_Filter_Init), 0 if there were none, leaves ac_squared_sum
\* and sample_count at 0 and changes no other field of the filter state;
\* PPG_Filter_GetDC returns dc_value and changes no field.
C18_ReadAndClear ==
    /\ f_call.op = "rms" =>
          /\ f_call.ret = RmsOf(f_call.since)
          /\ f_call.after = [f_call.before EXCEPT !.ac_squared_sum = 0,
                                                  !.sample_count = 0]
    /\ (f_call.op = "rms" /\ f_call.since = << >>) => f_call.ret = 0
    /\ f_call.op = "dc" =>
          (f_call.after = f_call.before /\ f_call.ret = f_call.before.dc_value)

\* a read that is not the first one, after some samples with pulses in them:
\* it returned a non-zero RMS and cleared a non-zero accumulator
C18_Witness ==
    /\ f_call.op = "rms"
    /\ Len(f_call.since) > 0
    /\ Len(f_call.since) < f_n
    /\ f_call.ret > 0
    /\ f_call.before.ac_squared_sum > 0
    /\ flt.ac_squared_sum = 0 /\ flt.sample_count = 0

\* the fields HR_Reset zeroes
ResetZeroed(s) ==
    /\ s.hr_history_index = 0 /\ s.hr_history_count = 0
    /\ s.last_hr = 0 /\ s.ema_hr = 0 /\ s.hr_valid = 0
    /\ s.stable_count = 0 /\ s.consecutive_invalid = 0
    /\ s.signal_quality = 0

\* the sample buffer and the rolling statistics of t are those of s
ResetKept(s, t) ==
    /\ t.buffer = s.buffer /\ t.buffer_index = s.buffer_index
    /\ t.buffer_full = s.buffer_full
    /\ t.rolling_mean = s.rolling_mean
    /\ t.rolling_variance = s.rolling_variance
    /\ t.rolling_count = s.rolling_count

\* C19: HR_Reset, called by the application or by HR_Calculate itself,
\* zeroes hr_history_index, hr_history_count, last_hr, ema_hr, hr_valid,
\* stable_count, consecutive_invalid and signal_quality and leaves the sample
\* buffer, buffer_index, buffer_full, rolling_mean, rolling_variance and
\* rolling_count as they were.
C19_PartialReset ==
    [][(Reset \/ (Calculate /\ call'.reset)) =>
          (ResetZeroed(hr') /\ ResetKept(hr, hr'))]_vars

\* after a reset of a state with an accepted reading: the history and the
\* EMA are gone, the buffer is still full and the statistics still warm
C19_Witness ==
    /\ call.ever /\ ~call.fresh
    /\ ResetZeroed(hr)
    /\ hr.buffer_full = 1
    /\ hr.rolling_count = HR_BUFFER_SIZE
    /\ hr.rolling_variance > 0

\* C20: an HR_Calculate call made after fewer than HR_BUFFER_SIZE
\* HR_AddSample calls since HR_Init returns last_hr, which is 0, and changes
\* no field of HR_State_t.
C20_NoOpUntilFull ==
    [][(CalcStep /\ n < HR_BUFFER_SIZE) =>
          (hr' = hr /\ call'.ret = hr.last_hr /\ call'.ret = 0
             /\ call'.path = "notfull")]_vars

\* a call on a buffer that holds pulses but is not full yet
C20_Witness ==
    /\ call.path = "notfull"
    /\ n > PulsePhase /\ n < HR_BUFFER_SIZE
    /\ sig.T > 0
    /\ hr.buffer_full = 0
    /\ hr.rolling_variance > 0
    /\ hr.hr_valid = 0 /\ hr.consecutive_invalid = 0 /\ hr.signal_quality = 0

(***************************************************************************)
(* Method 2: what the accessors hand out.                                  *)
(***************************************************************************)
\* DPT_GetHeartRate without the validity test
DPT_GetHeartRate_Unchecked(s) == s.heart_rate

\* DPT_GetHeartRate, lines 273-277
DPT_GetHeartRate(s) == IF ~s.hr_valid THEN 0 ELSE s.heart_rate

\* DPT_GetSpO2, lines 282-286
DPT_GetSpO2(s) == IF ~s.spo2_valid THEN 0 ELSE s.spo2

\* C21: after any sequence of DPT_Process calls DPT_GetHeartRate returns 0
\* when hr_valid is false and otherwise a value within [30, 150] bpm,
\* DPT_GetSpO2 returns 0 when spo2_valid is false and otherwise a value
\* within [70, 100] percent; hr_valid implies that both buffers are full,
\* that peak_period is in [DPT_MIN_PERIOD, DPT_MAX_PERIOD] and that
\* stable_count >= 2.
C21_AccessorsHideInvalid ==
    /\ ~dpt.hr_valid => DPT_GetHeartRate(dpt) = 0
    /\ dpt.hr_valid =>
          /\ DPT_GetHeartRate(dpt) >= 30 * HRS
          /\ DPT_GetHeartRate(dpt) <= 150 * HRS
          /\ dpt.red_dpt.buffer_full /\ dpt.ir_dpt.buffer_full
          /\ dpt.peak_period >= DPT_MIN_PERIOD
          /\ dpt.peak_period <= DPT_MAX_PERIOD
          /\ dpt.stable_count >= 2
    /\ ~dpt.spo2_valid => DPT_GetSpO2(dpt) = 0
    /\ dpt.spo2_valid =>
          (DPT_GetSpO2(dpt) >= 70 * PCT /\ DPT_GetSpO2(dpt) <= 100 * PCT)

\* a call that rejected the heart rate after one had been computed: the
\* stored heart_rate is not 0, the accessor returns 0
C21_Witness ==
    /\ d_call.full /\ ~dpt.hr_valid
    /\ dpt.heart_rate > 0
    /\ DPT_GetHeartRate(dpt) = 0
    /\ d_pub.count > 0

(***************************************************************************)
(* Method 1: the rolling statistics against the sample buffer.             *)
(***************************************************************************)
\* the mean of the buffered samples, in 1/100
BufferMean(buf) == (RangeSum(buf, 0, HR_BUFFER_SIZE - 1) * SC) \div HR_BUFFER_SIZE

\* the population variance of the buffered samples, in 1/100
BufferVariance(buf) ==
    LET mean == BufferMean(buf)
        sq   == [i \in 0..(HR_BUFFER_SIZE - 1) |->
                    ((buf[i] * SC - mean) * (buf[i] * SC - mean)) \div SC]
    IN RangeSum(sq, 0, HR_BUFFER_SIZE - 1) \div HR_BUFFER_SIZE

\* a and b agree within StatTolerance percent of b, or within one count
Close(a, b) == Abs(a - b) * 100 <= StatTolerance * Abs(b) + 100 * SC

\* the variance HR_Calculate derives for its threshold, line 213
DerivedVariance(s) == s.rolling_variance \div s.rolling_count

\* C22: once HR_BUFFER_SIZE samples have been fed, rolling_count is
\* HR_BUFFER_SIZE, rolling_mean is the mean of the buffered samples, the
\* variance HR_Calculate derives (rolling_variance / rolling_count) is their
\* population variance, and the square root of rolling_variance, which
\* assess_signal_quality and the AC/DC ratio take as the standard deviation,
\* is the square root of that same variance.
C22_StatsInSync ==
    n >= HR_BUFFER_SIZE =>
        /\ hr.rolling_count = HR_BUFFER_SIZE
        /\ Close(hr.rolling_mean, BufferMean(hr.buffer))
        /\ Close(DerivedVariance(hr), BufferVariance(hr.buffer))
        /\ Close(FSqrt(hr.rolling_variance), FSqrt(BufferVariance(hr.buffer)))

\* one sample after the buffer has filled: the count and the mean are in sync,
\* rolling_variance already is the population variance, and HR_Calculate would
\* divide it by the count once more
C22_Witness ==
    /\ n > HR_BUFFER_SIZE
    /\ sig.T > 0
    /\ hr.rolling_count = HR_BUFFER_SIZE
    /\ hr.rolling_mean = BufferMean(hr.buffer)
    /\ hr.rolling_variance = BufferVariance(hr.buffer)
    /\ hr.rolling_variance > 100 * SC
    /\ DerivedVariance(hr) * 100 < BufferVariance(hr.buffer)

\* C23: the heart rate published by the first accepted reading after a
\* rejection does not depend on what hr_median_buffer, hr_history and
\* last_valid_hr held before the rejection: it is the one published by the
\* run in which they held nothing.
C23_ReseededFromScratch ==
    (d_call.accepted /\ d_call.after_reject) => dpt.heart_rate = d_call.scratch

\* the first accepted reading after a rejection, on a state that held
\* earlier readings: the published heart rate is pulled towards them
C23_Witness ==
    /\ d_call.accepted /\ d_call.after_reject
    /\ d_call.dropped > 0
    /\ d_call.scratch > 0
    /\ Abs(dpt.heart_rate - d_call.scratch) > DPT_MAX_HR_CHANGE * HRS

\* C24: a DPT_Process call made with a full buffer in which the SpO2 gate
\* fails (no peak, a DC value not above MIN_DC_VALUE, or an IR ratio that is
\* not positive) leaves spo2_valid false, every r_history slot 0 and
\* r_index 0; the successful call that follows it leaves its own R-value in
\* slot 0 and nothing in the other slots.
C24_GateFailureEmptiesRHistory ==
    /\ (d_call.full /\ ~d_call.poly) =>
          (~dpt.spo2_valid /\ AllZero(dpt.r_history) /\ dpt.r_index = 0)
    /\ (d_call.poly /\ d_call.after_gate) =>
          /\ dpt.r_index = 1
          /\ dpt.r_history[0] = d_call.r_value
          /\ \A i \in 1..(DPT_R_SMOOTH_SIZE - 1) : dpt.r_history[i] = 0

\* a gating failure after successful calls, then a successful call: its
\* R-value is the only one in the history
C24_Witness ==
    /\ d_call.poly /\ d_call.after_gate
    /\ d_pub.count > 0
    /\ d_call.r_value > 0
    /\ smooth_array(dpt.r_history, DPT_R_SMOOTH_SIZE) = d_call.r_value
    /\ dpt.spo2_valid

(***************************************************************************)
(* Method 1: the peak scan of HR_Calculate.                                *)
(***************************************************************************)
\* the threshold HR_Calculate uses on state s when the quality is q
ThresholdOf(s, q) ==
    AdaptiveThreshold(s.rolling_mean,
                      FSqrt(s.rolling_variance \div s.rolling_count), q)

\* the indices the scan visits that pass the local-maximum test
LocalMaxima(s, q) ==
    {i \in 3..(HR_BUFFER_SIZE - 4) : IsPeak(s.buffer, ThresholdOf(s, q), i)}

\* the peaks HR_Calculate records on state s when the quality is q
PeaksOf(s, q) == PeakScan(s.buffer, ThresholdOf(s, q), s.rolling_mean).peaks

ScanBounded(s, q) ==
    LET th == ThresholdOf(s, q)
        p  == PeaksOf(s, q)
    IN /\ \A k \in 1..Len(p) :
             /\ p[k] >= 3 /\ p[k] <= HR_BUFFER_SIZE - 4
             /\ \A j \in 1..3 : /\ s.buffer[p[k]] > s.buffer[p[k] - j]
                                /\ s.buffer[p[k]] > s.buffer[p[k] + j]
             /\ s.buffer[p[k]] * SC > th
       /\ \A k \in 1..(Len(p) - 1) : p[k + 1] - p[k] >= MIN_PEAK_DISTANCE
       /\ Len(p) <= MAX_PEAKS
       /\ Len(ValidIntervals(p)) <= MAX_PEAKS - 1

\* C25: whenever the buffer is full, the peak scan HR_Calculate would run on
\* it, for either quality grade that reaches the scan, records only indices
\* in [3, HR_BUFFER_SIZE - 4] whose sample is strictly greater than the three
\* samples on each side and than the threshold, records successive peaks at
\* least MIN_PEAK_DISTANCE apart, at most MAX_PEAKS of them, and keeps at
\* most MAX_PEAKS - 1 intervals.
C25_PeakScanBounded ==
    hr.buffer_full = 1 => \A q \in {1, 2} : ScanBounded(hr, q)

\* a Calculate call whose scan found more local maxima than it recorded: the
\* distance test dropped some
C25_Witness ==
    /\ hr.buffer_full = 1
    /\ call.path \in {"accepted", "peaks", "intervals", "range"}
    /\ since_calc = 0
    /\ \E q \in {1, 2} :
          /\ Len(PeaksOf(hr, q)) >= 2
          /\ Cardinality(LocalMaxima(hr, q)) > Len(PeaksOf(hr, q))

(***************************************************************************)
(* The signal conditioner: the moving-average baseline.                    *)
(***************************************************************************)
\* the number of samples in the baseline window after calls Process calls
BaselineCount(calls) == Min(calls, DETREND_WINDOW_SIZE)

\* the sum, in 1/DS count, of the last BaselineCount(calls) raw samples of
\* input T
BaselineSum(T, calls) ==
    RangeSum([k \in 0..(calls - 1) |-> FltRaw(T, k) * DS],
             calls - BaselineCount(calls), calls - 1)

\* C26: after f_n >= 1 PPG_Filter_Process calls since PPG_Filter_Init on raw
\* values of at most 18 bits, detrend_sum is the sum of the last
\* min(f_n, DETREND_WINDOW_SIZE) raw samples, dc_value is their mean,
\* detrend_index is within [0, DETREND_WINDOW_SIZE), and detrend_filled is
\* set from the 32nd call on and not before.
C26_BaselineIsWindowMean ==
    /\ flt.detrend_index >= 0 /\ flt.detrend_index < DETREND_WINDOW_SIZE
    /\ flt.detrend_index = f_n % DETREND_WINDOW_SIZE
    /\ flt.detrend_filled = (IF f_n >= DETREND_WINDOW_SIZE THEN 1 ELSE 0)
    /\ f_n >= 1 =>
          /\ flt.detrend_sum = BaselineSum(f_in, f_n)
          /\ flt.dc_value = BaselineSum(f_in, f_n) \div BaselineCount(f_n)
          /\ \A k \in 0..(f_n - 1) : FltRaw(f_in, k) <= FltFullScale

\* the window has rolled over pulses, and it has rolled at full scale
C26_Witness ==
    /\ f_n > DETREND_WINDOW_SIZE + 5
    /\ f_call.op = "process"
    /\ f_in = 20
    /\ flt.detrend_sum # DETREND_WINDOW_SIZE * FltDc * DS
    /\ flt.detrend_filled = 1

(***************************************************************************)
(* Method 2: the 8-bit counter of stable readings.                         *)
(***************************************************************************)
\* the call accepted a reading within 3 bpm of the previous published rate
StableCall ==
    /\ DptProcess
    /\ d_call'.accepted
    /\ dpt.last_valid_hr > 0
    /\ Abs(dpt'.heart_rate - dpt.last_valid_hr) < 3 * HRS

\* C27: once hr_valid is true, every DPT_Process call that accepts a reading
\* within 3 bpm of the previous one leaves hr_valid true and stable_count at
\* 2 or more, however many such calls follow one another.
C27_ValidWhileStable ==
    [][(dpt.hr_valid /\ StableCall) =>
          (dpt'.hr_valid /\ dpt'.stable_count >= 2)]_vars

\* the 256th stable call in a row on a steady pulse train: hr_valid is lost
C27_Witness ==
    /\ d_in \in PulseInputs
    /\ d_n = DPT_BUFFER_SIZE + 255
    /\ d_call.accepted
    /\ dpt.stable_count = 0
    /\ ~dpt.hr_valid

\* the position in arrival order, 0 for the oldest, of slot i of a full buffer
ArrivalOrder(s, i) == (i - s.buffer_index + HR_BUFFER_SIZE) % HR_BUFFER_SIZE

\* the return statements of HR_Calculate that lie after the peak scan
AfterScan == {"peaks", "intervals", "range", "accepted"}

\* C28: in every HR_Calculate call that scans the buffer, whatever the write
\* position buffer_index, the interval between two successive recorded peaks
\* is the number of samples that elapsed between the arrivals of the two
\* samples.
C28_IntervalsInArrivalOrder ==
    [][(CalcStep /\ call'.path \in AfterScan) =>
          LET p == PeaksOf(hr, assess_signal_quality(hr))
          IN \A k \in 1..(Len(p) - 1) :
                p[k + 1] - p[k] =
                    ArrivalOrder(hr, p[k + 1]) - ArrivalOrder(hr, p[k])]_vars

\* an accepted reading made of an interval between a peak that arrived after
\* the write position wrapped and one that arrived before
C28_Witness ==
    /\ since_calc = 0
    /\ call.path = "accepted"
    /\ hr.buffer_index # 0
    /\ hr.signal_quality > 0
    /\ LET p == PeaksOf(hr, hr.signal_quality)
       IN \E k \in 1..(Len(p) - 1) :
             p[k] < hr.buffer_index /\ hr.buffer_index <= p[k + 1]

\* C29: a rejected SpO2_Calculate call, whatever the cause, changes nothing
\* but the validity flag: r_history, r_history_index and r_history_count are
\* after the call what they were before it.
C29_RejectionKeepsRHistory ==
    [][(SpCalculate /\ SpRejected(sp_call')) =>
          /\ spo2'.r_history = spo2.r_history
          /\ spo2'.r_history_index = spo2.r_history_index
          /\ spo2'.r_history_count = spo2.r_history_count
          /\ spo2' = [spo2 EXCEPT !.spo2_valid = 0]]_vars

\* a call rejected on the polynomial's result, after a value was published:
\* its R is in the history that the next call averages
C29_Witness ==
    /\ sp_call.path = "spo2_range"
    /\ sp_call.last_before > 0
    /\ spo2.r_history_count >= 2
    /\ spo2.r_history[(spo2.r_history_index + 9) % 10] =
          RValue(sp_call.in.red_ac_rms, sp_call.in.red_dc,
                 sp_call.in.ir_ac_rms, sp_call.in.ir_dc)

(***************************************************************************)
(* Method 1: the EMA and the stability check of step 12.                   *)
(***************************************************************************)
\* the most one accepted reading moves the EMA: HR_EMA_ALPHA * MAX_HR_CHANGE
MaxEmaStep == (2 * MAX_HR_CHANGE * HRS) \div 10

\* C30: last_hr equals ema_hr before and after every step; an accepted
\* reading moves a non-zero EMA by at most HR_EMA_ALPHA * MAX_HR_CHANGE, the
\* stability condition of step 12 (|ema_hr - last_hr| < 6 or last_hr = 0)
\* holds on it, and once two readings are in the history it increments
\* stable_count: the branch that resets stable_count is never taken.
C30_StabilityAlwaysHolds ==
    [][/\ hr.last_hr = hr.ema_hr
       /\ hr'.last_hr = hr'.ema_hr
       /\ (CalcStep /\ call'.path = "accepted") =>
             /\ hr.ema_hr > 0 => Abs(hr'.ema_hr - hr.ema_hr) <= MaxEmaStep
             /\ Abs(hr'.ema_hr - hr.last_hr) < 6 * HRS \/ hr.last_hr = 0
             /\ hr'.hr_history_count >= 2 =>
                   hr'.stable_count = (hr.stable_count + 1) % 256]_vars

\* an accepted reading after the signal changed: the rate limit held the EMA
\* to its largest step, and the reading counted as stable
C30_Witness ==
    /\ call.path = "accepted"
    /\ since_calc = 0
    /\ call.delta = MaxEmaStep
    /\ nevent > 0
    /\ hr.stable_count >= 2
    /\ hr.last_hr = hr.ema_hr

====
